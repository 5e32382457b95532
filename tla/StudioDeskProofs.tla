---------------------------- MODULE StudioDeskProofs ----------------------------
(***************************************************************************)
(* What holds of every studio's papers, however many quotations, events    *)
(* and requests there are, whatever overlaps and wherever a request breaks *)
(* off: the inductive invariant of StudioDesk, and from it its invariants  *)
(* but for the sums of payments, and what its clients may rely on.         *)
(***************************************************************************)
EXTENDS StudioDesk, FiniteSetTheorems, TLAPS

-----------------------------------------------------------------------------
(* The inductive invariant.                                                *)

BillingSteps == {"client", "quote", "clear", "patch", "delete", "confirm", "pay"}
SalesSteps == {"event", "invite", "book", "mark", "booking"}
PapersSteps == {"template", "untemplate", "contract", "sign", "answer"}
Steps == {"idle"} \cup BillingSteps \cup SalesSteps \cup PapersSteps
Receipt == [no : Nat, amount : Amounts]
PaidType == {Paid(S) : S \in SUBSET Receipt} \cup {0}
RequestType ==
  [pc : Steps, q : Quotes \cup {NoQuote}, items : SUBSET Line, keep : BOOLEAN,
   discount : Discounts \cup {0, Same}, seen : SUBSET Line, amount : Amounts \cup {0},
   paid : PaidType, e : Events \cup {NoEvent}, on : BOOLEAN,
   name : Names \cup {"none"}, answers : SUBSET Questions, overtaken : BOOLEAN]
BillType ==
  [st : {"none", "UNPAID", "PARTIALLY_PAID", "PAID"}, no : Nat, items : SUBSET Line,
   discount : Discounts \cup {0, Same}, payments : SUBSET Receipt, raced : BOOLEAN]
QuoteType ==
  [st : {"none", "DRAFT", "CONFIRMED", "gone"}, no : Nat, items : SUBSET Line,
   discount : Discounts \cup {0}, raced : BOOLEAN]
NumbersType == [quotation : Nat \ {0}, bill : Nat \ {0}, receipt : Nat \ {0}]
InquiryType ==
  [st : {"none", "new", "contacted", "converted", "lost"}, event : Events \cup {NoEvent},
   raced : BOOLEAN, loose : BOOLEAN]
EventType == [st : {"none", "open", "gone"}, invite : BOOLEAN]
BookingType ==
  [of : Events \cup {NoEvent}, event : Events \cup {NoEvent}, st : {"inquiry", "confirmed", "cancelled"}]
TemplateType == [row : {"none", "open", "gone"}, file : BOOLEAN]
ContractType == [st : {"none", "sent", "signed", "gone"}, name : Names \cup {"none"}, template : BOOLEAN]
FormType == [st : {"none", "open", "gone"}, active : BOOLEAN, questions : SUBSET Questions]
SheetType == [st : {"none", "open", "gone"}, answers : SUBSET Questions]

RequestsTyped == req \in [Requests -> RequestType] /\ left \in [Areas -> Nat]
BillingTyped ==
  /\ client \in {"none", "USER", "staff"} /\ quote \in [Quotes -> QuoteType]
  /\ bill \in [Quotes -> BillType] /\ next \in NumbersType
SalesTyped ==
  /\ inquiry \in InquiryType /\ event \in [Events -> EventType] /\ booking \subseteq BookingType
  /\ \A b \in booking : b.event = NoEvent \/ event[b.event].st = "open"
PapersTyped ==
  /\ template \in TemplateType /\ contract \in ContractType /\ form \in FormType /\ sheet \in SheetType
  /\ (contract.template => template.row = "open")
  /\ sheet.st = "open" => form.st = "open" /\ event[Desk].st = "open"

\* Lists of at most one line.
Short(items) == items = {} \/ \E i \in Line : items = {i}
\* What a bill says of the quotation it was made from.
QuoteSafe(q) ==
  /\ quote[q].st = "CONFIRMED" <=> bill[q].st # "none"
  /\ bill[q].st = "none" => bill[q].payments = {}
  /\ ~quote[q].raced =>
       /\ Short(quote[q].items)
       /\ bill[q].st # "none" =>
            bill[q].items = quote[q].items /\ bill[q].discount = quote[q].discount
\* Who works on a quotation has read a draft, which still is as it was read, and
\* the lines to be deleted are all there are, unless it was overtaken.
Editing == {"clear", "patch", "delete", "confirm"}
BillingSafe(r) ==
  /\ Short(req[r].items) \/ req[r].pc = "confirm"
  /\ req[r].pc \in {"client", "quote"} => req[r].discount \in Discounts \cup {0}
  /\ req[r].pc \in Editing => req[r].q \in Quotes /\ quote[req[r].q].st # "none"
  /\ req[r].pc \in Editing /\ ~req[r].overtaken =>
       /\ quote[req[r].q].st = "DRAFT"
       /\ req[r].pc = "patch" /\ ~req[r].keep => req[r].seen = quote[req[r].q].items
       /\ req[r].pc = "confirm" =>
            req[r].items = quote[req[r].q].items /\ req[r].discount = quote[req[r].q].discount
  /\ req[r].pc = "pay" => req[r].q \in Billed /\ req[r].amount \in Amounts

\* A conversion has an event of its own, with what it has written so far.
Holding == {"invite", "book", "mark"}
Made == {b \in booking : b.of # NoEvent}
Has(e) == event[e].st = "gone" \/ event[e].invite
SalesSafe(r) ==
  /\ req[r].pc \in Holding =>
       /\ req[r].e \in Events /\ event[req[r].e].st # "none" /\ req[r].e # inquiry.event
       /\ \A q \in Requests : q # r /\ req[q].pc \in Holding => req[q].e # req[r].e
  /\ req[r].pc \in {"invite", "book"} => \A b \in booking : b.of # req[r].e
  /\ req[r].pc \in {"book", "mark"} => Has(req[r].e)
  /\ req[r].pc = "mark" => \E b \in booking : b.of = req[r].e
  /\ req[r].pc \in Converting /\ ~req[r].overtaken => inquiry.event = NoEvent
  /\ req[r].pc = "booking" => req[r].e = NoEvent \/ (req[r].e \in Events /\ event[req[r].e].st # "none")
\* There is one booking of each conversion: that of the inquiry, and those of
\* the conversions that are about to mark it, unless one broke off.
SalesInv ==
  /\ \A b, c \in Made : b.of = c.of => b = c
  /\ \A b \in Made : event[b.of].st # "none"
  /\ inquiry.event # NoEvent =>
       /\ event[inquiry.event].st # "none" /\ Has(inquiry.event)
       /\ \E b \in booking : b.of = inquiry.event
  /\ ~inquiry.raced /\ ~inquiry.loose =>
       \A b \in Made : b.of = inquiry.event \/ \E r \in Requests : req[r].pc = "mark" /\ req[r].e = b.of

\* Who signs found the contract unsigned, who answers found the questions asked.
PapersSafe(r) ==
  /\ req[r].pc = "sign" /\ ~req[r].overtaken => contract.st = "sent"
  /\ req[r].pc = "answer" /\ ~req[r].overtaken =>
       form.st # "none" /\ form.active /\ req[r].answers \subseteq form.questions

BillingInv ==
  /\ BillingTyped /\ IsFiniteSet(Receipts) /\ NumbersWithoutGaps
  /\ \A q \in Quotes : QuoteSafe(q)
  /\ \A r \in Requests : BillingSafe(r)
DealsInv == SalesTyped /\ SalesInv /\ \A r \in Requests : SalesSafe(r)
PapersInv == PapersTyped /\ \A r \in Requests : PapersSafe(r)
IInv == RequestsTyped /\ BillingInv /\ DealsInv /\ PapersInv

-----------------------------------------------------------------------------
(* What a step does to a request.                                          *)

SameLocals(q) ==
  /\ req'[q].q = req[q].q /\ req'[q].items = req[q].items /\ req'[q].keep = req[q].keep
  /\ req'[q].discount = req[q].discount /\ req'[q].seen = req[q].seen /\ req'[q].amount = req[q].amount
  /\ req'[q].paid = req[q].paid /\ req'[q].e = req[q].e /\ req'[q].on = req[q].on
  /\ req'[q].name = req[q].name /\ req'[q].answers = req[q].answers
Stays(q) == req'[q] = req[q]
Marked(q) == SameLocals(q) /\ req'[q].pc = req[q].pc /\ req'[q].overtaken
Advances(q, pc) == SameLocals(q) /\ req'[q].pc = pc /\ req'[q].overtaken = req[q].overtaken
Ends(q) == req'[q] = Idle /\ req'[q].pc = "idle" /\ req'[q].items = {}
OthersMarked(r, readers) ==
  \A q \in Requests \ {r} : IF q \in readers THEN Marked(q) ELSE Stays(q)
OthersStay(r) == \A q \in Requests \ {r} : Stays(q)

LEMMA IdleTyped ==
  /\ Idle \in RequestType /\ Idle.pc = "idle" /\ Idle.items = {} /\ ~Idle.overtaken
BY DEF Idle, RequestType, Steps, PaidType

LEMMA SomeIsIn == ASSUME NEW S, S # {} PROVE Some(S) \in S
BY DEF Some

LEMMA OvertakeShape ==
  ASSUME RequestsTyped, NEW S, NEW q \in Requests
  PROVE  /\ Overtake(S)[q] = IF q \in S THEN [req[q] EXCEPT !.overtaken = TRUE] ELSE req[q]
         /\ Overtake(S) \in [Requests -> RequestType]
<1>1. req \in [Requests -> RequestType]
  BY DEF RequestsTyped
<1>2. ASSUME NEW p \in Requests PROVE [req[p] EXCEPT !.overtaken = TRUE] \in RequestType
  <2> DEFINE old == req[p]
  <2>1. old \in RequestType
    BY <1>1
  <2> HIDE DEF old
  <2>2. [old EXCEPT !.overtaken = TRUE] \in RequestType
    BY <2>1 DEF RequestType
  <2> QED BY <2>2 DEF old
<1> QED BY <1>1, <1>2 DEF Overtake

LEMMA MarkShape ==
  ASSUME RequestsTyped, NEW S, req' = Overtake(S)
  PROVE  /\ req' \in [Requests -> RequestType]
         /\ \A q \in Requests : IF q \in S THEN Marked(q) ELSE Stays(q)
<1>1. req \in [Requests -> RequestType]
  BY DEF RequestsTyped
<1>2. req' \in [Requests -> RequestType] \/ Requests = {}
  BY OvertakeShape
<1>3. req' \in [Requests -> RequestType]
  BY <1>1, <1>2 DEF Overtake
<1>4. ASSUME NEW q \in Requests PROVE IF q \in S THEN Marked(q) ELSE Stays(q)
  <2>1. req'[q] = IF q \in S THEN [req[q] EXCEPT !.overtaken = TRUE] ELSE req[q]
    BY OvertakeShape
  <2> QED BY <1>1, <2>1 DEF Marked, Stays, SameLocals, RequestType
<1> QED BY <1>3, <1>4

LEMMA WriteShape ==
  ASSUME RequestsTyped, NEW r \in Requests, NEW S, NEW pc \in Steps \ {"idle"}, Write(r, S, pc)
  PROVE  RequestsTyped' /\ Advances(r, pc) /\ OthersMarked(r, S)
<1>1. req \in [Requests -> RequestType]
  BY DEF RequestsTyped
<1>2. req' = [Overtake(S \ {r}) EXCEPT ![r] = [Overtake(S \ {r})[r] EXCEPT !.pc = pc]] /\ left' = left
  BY DEF Write
<1>3. Overtake(S \ {r})[r] = req[r] /\ Overtake(S \ {r}) \in [Requests -> RequestType]
  BY OvertakeShape
<1>4. [req[r] EXCEPT !.pc = pc] \in RequestType
  BY <1>1 DEF RequestType
<1>5. RequestsTyped' /\ req'[r] = [req[r] EXCEPT !.pc = pc]
  BY <1>2, <1>3, <1>4 DEF RequestsTyped
<1>6. Advances(r, pc)
  BY <1>1, <1>5 DEF Advances, SameLocals, RequestType
<1>7. ASSUME NEW q \in Requests \ {r} PROVE IF q \in S THEN Marked(q) ELSE Stays(q)
  <2>1. req'[q] = IF q \in S \ {r} THEN [req[q] EXCEPT !.overtaken = TRUE] ELSE req[q]
    BY <1>2, <1>3, OvertakeShape
  <2> QED BY <1>1, <2>1 DEF Marked, Stays, SameLocals, RequestType
<1> QED BY <1>5, <1>6, <1>7 DEF OthersMarked

LEMMA LastWriteShape ==
  ASSUME RequestsTyped, NEW r \in Requests, NEW S, Write(r, S, "idle")
  PROVE  RequestsTyped' /\ Ends(r) /\ OthersMarked(r, S)
<1>1. req \in [Requests -> RequestType]
  BY DEF RequestsTyped
<1>2. req' = [Overtake(S \ {r}) EXCEPT ![r] = Idle] /\ left' = left
  BY DEF Write
<1>3. Overtake(S \ {r}) \in [Requests -> RequestType]
  BY OvertakeShape
<1>4. RequestsTyped' /\ Ends(r)
  BY <1>2, <1>3, IdleTyped DEF RequestsTyped, Ends
<1>5. ASSUME NEW q \in Requests \ {r} PROVE IF q \in S THEN Marked(q) ELSE Stays(q)
  <2>1. req'[q] = IF q \in S \ {r} THEN [req[q] EXCEPT !.overtaken = TRUE] ELSE req[q]
    BY <1>2, <1>3, OvertakeShape
  <2> QED BY <1>1, <2>1 DEF Marked, Stays, SameLocals, RequestType
<1> QED BY <1>4, <1>5 DEF OthersMarked

\* A request gives up what it was doing; another begins with what it read.
LEMMA EndShape ==
  ASSUME RequestsTyped, NEW r \in Requests, req' = [req EXCEPT ![r] = Idle], left' = left
  PROVE  RequestsTyped' /\ Ends(r) /\ OthersStay(r)
BY IdleTyped DEF RequestsTyped, Ends, OthersStay, Stays

LEMMA CountShape ==
  ASSUME RequestsTyped, NEW area \in Areas, Count(area)
  PROVE  left' \in [Areas -> Nat]
<1>1. left \in [Areas -> Nat] /\ left[area] > 0 /\ left' = [left EXCEPT ![area] = left[area] - 1]
  BY DEF RequestsTyped, Count
<1>2. left[area] - 1 \in Nat
  BY <1>1
<1> QED BY <1>1, <1>2

LEMMA BeginShape ==
  ASSUME RequestsTyped, NEW r \in Requests, NEW area \in Areas, NEW new \in RequestType, Begin(r, area, new)
  PROVE  /\ RequestsTyped' /\ OthersStay(r) /\ req'[r] = new /\ req[r].pc = "idle"
         /\ UNCHANGED <<billing, sales, papers>>
<1>1. left' \in [Areas -> Nat]
  BY CountShape DEF Begin
<1> QED BY <1>1 DEF Begin, RequestsTyped, OthersStay, Stays

LEMMA OthersKept ==
  ASSUME NEW r \in Requests, NEW S, OthersMarked(r, S), NEW q \in Requests \ {r}
  PROVE  (Stays(q) \/ Marked(q)) /\ (q \in S => Marked(q)) /\ (Stays(q) \/ q \in S)
BY DEF OthersMarked

-----------------------------------------------------------------------------
(* An area is untouched by the requests that work on another.              *)

BillingQuiet(q) == Stays(q) \/ Marked(q) \/ BillingSafe(q)'
SalesQuiet(q) ==
  \/ Stays(q) \/ Marked(q)
  \/ /\ req[q].pc = "mark" => inquiry'.loose
     /\ req'[q].pc \notin Holding
     /\ req'[q].pc = "event" /\ ~req'[q].overtaken => inquiry.event = NoEvent
     /\ req'[q].pc = "booking" =>
          req'[q].e = NoEvent \/ (req'[q].e \in Events /\ event[req'[q].e].st # "none")
PapersQuiet(q) == Stays(q) \/ Marked(q) \/ PapersSafe(q)'

LEMMA BillingKept ==
  ASSUME BillingInv, UNCHANGED billing, \A q \in Requests : BillingQuiet(q)
  PROVE  BillingInv'
<1>1. UNCHANGED <<quote, bill, next, client, Receipts, Billed, Blank>>
  BY DEF billing, Receipts, Billed, Blank
<1>2. (BillingTyped /\ IsFiniteSet(Receipts) /\ NumbersWithoutGaps)'
  BY <1>1 DEF BillingInv, BillingTyped, NumbersWithoutGaps
<1>3. ASSUME NEW q \in Quotes PROVE QuoteSafe(q)'
  BY <1>1 DEF BillingInv, QuoteSafe
<1>4. ASSUME NEW q \in Requests PROVE BillingSafe(q)'
  <2>1. BillingQuiet(q) /\ BillingSafe(q)
    BY DEF BillingInv
  <2> QED BY <1>1, <2>1 DEF BillingQuiet, BillingSafe, Stays, Marked, SameLocals
<1> QED BY <1>2, <1>3, <1>4 DEF BillingInv

\* No event and no booking of a conversion is made or lost, and the inquiry names
\* the event it named.
SameDeals ==
  /\ inquiry'.event = inquiry.event /\ (inquiry.raced => inquiry'.raced) /\ (inquiry.loose => inquiry'.loose)
  /\ \A e \in Events : event[e].st # "none" => event'[e].st # "none"
  /\ \A e \in Events : Has(e) => (Has(e))'
  /\ \A b \in booking : \E c \in booking' : c.of = b.of
  /\ \A c \in booking' : c.of # NoEvent => \E b \in booking : c.of = b.of
  /\ \A b, c \in Made' : b.of = c.of => b = c

LEMMA SalesGoOn ==
  ASSUME DealsInv, SalesTyped', SameDeals, \A q \in Requests : SalesQuiet(q)
  PROVE  DealsInv'
<1>1. /\ inquiry \in InquiryType /\ booking \subseteq BookingType /\ SalesInv
      /\ NoEvent \notin Events
  BY SlotsAssumption DEF DealsInv, SalesTyped
<1>2. ASSUME NEW q \in Requests
      PROVE  /\ req'[q].pc \in Holding => req'[q].pc = req[q].pc /\ req'[q].e = req[q].e
             /\ req'[q].pc \in Converting /\ ~req'[q].overtaken =>
                  inquiry.event = NoEvent \/ (req[q].pc = req'[q].pc /\ ~req[q].overtaken)
             /\ req[q].pc = "mark" => (req'[q].pc = "mark" /\ req'[q].e = req[q].e) \/ inquiry'.loose
             /\ req'[q].pc = "booking" =>
                  req'[q].e = NoEvent \/ (req'[q].e \in Events /\ event[req'[q].e].st # "none")
  <2>1. SalesQuiet(q) /\ SalesSafe(q)
    BY DEF DealsInv
  <2> QED BY <2>1 DEF SalesQuiet, SalesSafe, Stays, Marked, SameLocals, Holding, Converting
<1>3. SalesInv'
  <2>1. ASSUME NEW b \in Made' PROVE b.of \in Events /\ event'[b.of].st # "none"
    <3>1. b \in booking' /\ b.of # NoEvent /\ b.of \in Events
      BY DEF Made, SalesTyped, BookingType
    <3>2. PICK c \in Made : c.of = b.of
      BY <3>1 DEF SameDeals, Made
    <3> QED BY <1>1, <3>1, <3>2 DEF SameDeals, SalesInv
  <2>2. ASSUME inquiry'.event # NoEvent
        PROVE  /\ event'[inquiry'.event].st # "none" /\ (Has(inquiry.event))'
               /\ \E b \in booking' : b.of = inquiry'.event
    <3>1. inquiry.event \in Events
      BY <1>1, <2>2 DEF SameDeals, InquiryType
    <3> QED BY <1>1, <2>2, <3>1 DEF SameDeals, SalesInv
  <2>3. ASSUME ~inquiry'.raced, ~inquiry'.loose, NEW b \in Made'
        PROVE  b.of = inquiry'.event \/ \E r \in Requests : req'[r].pc = "mark" /\ req'[r].e = b.of
    <3>1. PICK c \in Made : c.of = b.of
      BY DEF SameDeals, Made
    <3>2. c.of = inquiry.event \/ \E r \in Requests : req[r].pc = "mark" /\ req[r].e = c.of
      BY <1>1, <2>3 DEF SameDeals, SalesInv
    <3> QED BY <1>2, <2>3, <3>1, <3>2 DEF SameDeals
  <2>4. \A b, c \in Made' : b.of = c.of => b = c
    BY DEF SameDeals
  <2> QED BY <2>1, <2>2, <2>3, <2>4 DEF SalesInv, Has, Made
<1>4. ASSUME NEW q \in Requests PROVE SalesSafe(q)'
  <2>1. SalesSafe(q) /\ \A p \in Requests : SalesSafe(p)
    BY DEF DealsInv
  <2>2. req'[q].pc \in Holding =>
          /\ req'[q].e \in Events /\ event'[req'[q].e].st # "none" /\ req'[q].e # inquiry'.event
          /\ \A p \in Requests : p # q /\ req'[p].pc \in Holding => req'[p].e # req'[q].e
    BY <1>2, <2>1 DEF SalesSafe, SameDeals
  <2>3. req'[q].pc \in {"invite", "book"} => \A b \in booking' : b.of # req'[q].e
    BY <1>1, <1>2, <2>1 DEF SalesSafe, SameDeals, Holding
  <2>4. req'[q].pc \in {"book", "mark"} => event'[req'[q].e].st = "gone" \/ event'[req'[q].e].invite
    BY <1>2, <2>1 DEF SalesSafe, SameDeals, Holding, Has
  <2>5. req'[q].pc = "mark" => \E b \in booking' : b.of = req'[q].e
    BY <1>2, <2>1 DEF SalesSafe, SameDeals, Holding
  <2>6. req'[q].pc \in Converting /\ ~req'[q].overtaken => inquiry'.event = NoEvent
    BY <1>2, <2>1 DEF SalesSafe, SameDeals
  <2>7. req'[q].pc = "booking" => req'[q].e = NoEvent \/ (req'[q].e \in Events /\ event'[req'[q].e].st # "none")
    BY <1>2 DEF SameDeals
  <2> QED BY <2>2, <2>3, <2>4, <2>5, <2>6, <2>7 DEF SalesSafe, Has
<1> QED BY <1>3, <1>4 DEF DealsInv

LEMMA SalesKept ==
  ASSUME DealsInv, UNCHANGED sales, \A q \in Requests : SalesQuiet(q)
  PROVE  DealsInv'
<1>1. UNCHANGED <<inquiry, event, booking, Made>>
  BY DEF sales, Made
<1>2. SalesTyped'
  BY <1>1 DEF DealsInv, SalesTyped
<1>3. SameDeals
  BY <1>1 DEF SameDeals, Has, DealsInv, SalesInv
<1> QED BY <1>2, <1>3, SalesGoOn

LEMMA PapersKept ==
  ASSUME PapersInv, UNCHANGED papers, \A q \in Requests : PapersQuiet(q),
         event'[Desk].st = event[Desk].st \/ event'[Desk].st = "open"
  PROVE  PapersInv'
<1>1. UNCHANGED <<template, contract, form, sheet>>
  BY DEF papers
<1>2. PapersTyped'
  BY <1>1 DEF PapersInv, PapersTyped
<1>3. ASSUME NEW q \in Requests PROVE PapersSafe(q)'
  <2>1. PapersQuiet(q) /\ PapersSafe(q)
    BY DEF PapersInv
  <2> QED BY <1>1, <2>1 DEF PapersQuiet, PapersSafe, Stays, Marked, SameLocals
<1> QED BY <1>2, <1>3 DEF PapersInv

\* r goes on with work of one area, or stops; the others may be overtaken.
Turn(r, steps) ==
  /\ req[r].pc \in {"idle"} \cup steps /\ req'[r].pc \in {"idle"} \cup steps
  /\ \A q \in Requests \ {r} : Stays(q) \/ Marked(q)

LEMMA BillingMeans ==
  ASSUME IInv, NEW r \in Requests, Turn(r, BillingSteps), UNCHANGED <<sales, papers>>,
         RequestsTyped', BillingInv'
  PROVE  IInv'
<1>1. ASSUME NEW q \in Requests PROVE SalesQuiet(q) /\ PapersQuiet(q)
  BY DEF Turn, SalesQuiet, PapersQuiet, PapersSafe, BillingSteps, Holding
<1>2. DealsInv' /\ PapersInv'
  BY <1>1, SalesKept, PapersKept DEF IInv, sales
<1> QED BY <1>2 DEF IInv

LEMMA SalesMeans ==
  ASSUME IInv, NEW r \in Requests, Turn(r, SalesSteps), req'[r].items \in {{}, req[r].items},
         UNCHANGED <<billing, papers>>, event'[Desk].st \in {event[Desk].st, "open"},
         RequestsTyped', DealsInv'
  PROVE  IInv'
<1>1. BillingSafe(r)
  BY DEF IInv, BillingInv
<1>2. ASSUME NEW q \in Requests PROVE BillingQuiet(q) /\ PapersQuiet(q)
  BY <1>1 DEF Turn, BillingQuiet, BillingSafe, Short, PapersQuiet, PapersSafe, SalesSteps, Editing
<1>3. BillingInv' /\ PapersInv'
  BY <1>2, BillingKept, PapersKept DEF IInv
<1> QED BY <1>3 DEF IInv

LEMMA PapersMeans ==
  ASSUME IInv, NEW r \in Requests, Turn(r, PapersSteps), req'[r].items \in {{}, req[r].items},
         UNCHANGED <<billing, sales>>, RequestsTyped', PapersInv'
  PROVE  IInv'
<1>1. BillingSafe(r)
  BY DEF IInv, BillingInv
<1>2. ASSUME NEW q \in Requests PROVE BillingQuiet(q) /\ SalesQuiet(q)
  BY <1>1 DEF Turn, BillingQuiet, BillingSafe, Short, SalesQuiet, PapersSteps, Editing, Holding
<1>3. BillingInv' /\ DealsInv'
  BY <1>2, BillingKept, SalesKept DEF IInv
<1> QED BY <1>3 DEF IInv

LEMMA EndKept ==
  ASSUME IInv, NEW r \in Requests, End(r), req[r].pc \notin Holding
  PROVE  IInv'
<1>1. RequestsTyped' /\ Ends(r) /\ OthersStay(r) /\ UNCHANGED <<billing, sales, papers>>
  BY EndShape DEF IInv, End
<1>2. ASSUME NEW q \in Requests PROVE BillingQuiet(q) /\ SalesQuiet(q) /\ PapersQuiet(q)
  BY <1>1 DEF Ends, OthersStay, BillingQuiet, BillingSafe, Short, SalesQuiet, PapersQuiet, PapersSafe,
     Editing, Holding
<1>3. BillingInv' /\ DealsInv' /\ PapersInv'
  BY <1>1, <1>2, BillingKept, SalesKept, PapersKept DEF IInv, sales
<1> QED BY <1>1, <1>3 DEF IInv

-----------------------------------------------------------------------------
(* Quotations, bills and payments.                                         *)

LEMMA LinesShape ==
  ASSUME RequestsTyped, NEW items \in Lines(left["billing"])
  PROVE  items \subseteq Line /\ Short(items)
<1>1. left["billing"] \in Nat
  BY DEF RequestsTyped, Areas
<1> QED BY <1>1 DEF Lines, Line, Short

\* A request of the area has read what it goes on with.
LEMMA BillingBegun ==
  ASSUME IInv, NEW r \in Requests, NEW new \in RequestType, Begin(r, "billing", new),
         new.pc \in BillingSteps, (BillingSafe(r))'
  PROVE  IInv'
<1>1. /\ RequestsTyped' /\ OthersStay(r) /\ req'[r] = new /\ req[r].pc = "idle"
      /\ UNCHANGED <<billing, sales, papers>>
  BY BeginShape DEF IInv, Areas
<1>2. ASSUME NEW q \in Requests PROVE BillingQuiet(q)
  BY <1>1 DEF OthersStay, BillingQuiet
<1>3. BillingInv'
  BY <1>1, <1>2, BillingKept DEF IInv
<1>4. Turn(r, BillingSteps)
  BY <1>1 DEF Turn, OthersStay
<1> QED BY <1>1, <1>3, <1>4, BillingMeans

LEMMA StartQuoteStep ==
  ASSUME IInv, NEW r \in Requests, StartQuote(r)
  PROVE  IInv'
<1>1. PICK items \in Lines(left["billing"]), d \in Discounts :
        Begin(r, "billing", [Idle EXCEPT !.items = items, !.discount = d,
                               !.pc = IF client = "none" THEN "client" ELSE "quote"])
  BY DEF StartQuote
<1> DEFINE new == [Idle EXCEPT !.items = items, !.discount = d,
                     !.pc = IF client = "none" THEN "client" ELSE "quote"]
<1>2. items \subseteq Line /\ Short(items)
  BY LinesShape DEF IInv
<1>3. /\ new \in RequestType /\ new.pc \in {"client", "quote"} /\ new.items = items
      /\ new.discount = d
  <2>1. PICK pc \in {"client", "quote"} : new = [Idle EXCEPT !.items = items, !.discount = d, !.pc = pc]
    OBVIOUS
  <2>2. /\ new.pc = pc /\ new.items = items /\ new.discount = d
    BY <2>1 DEF Idle
  <2>3. "client" \in Steps /\ "quote" \in Steps
    BY DEF Steps, BillingSteps
  <2>4. [Idle EXCEPT !.items = items, !.discount = d, !.pc = pc] \in RequestType
    BY <1>2, <2>1, <2>3, IdleTyped DEF RequestType
  <2> QED BY <2>1, <2>2, <2>4
<1>4. Begin(r, "billing", new)
  BY <1>1
<1> HIDE DEF new
<1>5. req'[r] = new
  BY <1>3, <1>4, BeginShape DEF IInv, Areas
<1>6. (BillingSafe(r))'
  BY <1>2, <1>3, <1>5 DEF BillingSafe, Editing
<1> QED BY <1>3, <1>4, <1>6, BillingBegun DEF BillingSteps

LEMMA StartPatchStep ==
  ASSUME IInv, NEW r \in Requests, StartPatch(r)
  PROVE  IInv'
<1>1. PICK q \in Quotes, keep \in BOOLEAN, items \in Lines(left["billing"]), d \in Discounts \cup {Same} :
        /\ quote[q].st = "DRAFT" /\ (keep => items = {})
        /\ Begin(r, "billing", [Idle EXCEPT !.pc = IF keep THEN "patch" ELSE "clear", !.q = q,
                                  !.keep = keep, !.items = items, !.discount = d])
  BY DEF StartPatch
<1> DEFINE new == [Idle EXCEPT !.pc = IF keep THEN "patch" ELSE "clear", !.q = q,
                     !.keep = keep, !.items = items, !.discount = d]
<1>2. items \subseteq Line /\ Short(items)
  BY LinesShape DEF IInv
<1>3. /\ new \in RequestType /\ new.items = items /\ new.q = q /\ new.keep = keep
      /\ new.pc \in {"clear", "patch"} /\ (new.pc = "patch" => keep)
  <2>1. PICK pc \in {"clear", "patch"} :
          /\ pc = "patch" => keep
          /\ new = [Idle EXCEPT !.pc = pc, !.q = q, !.keep = keep, !.items = items, !.discount = d]
    OBVIOUS
  <2>2. new.pc = pc /\ new.items = items /\ new.q = q /\ new.keep = keep
    BY <2>1 DEF Idle
  <2>3. "clear" \in Steps /\ "patch" \in Steps
    BY DEF Steps, BillingSteps
  <2>4. [Idle EXCEPT !.pc = pc, !.q = q, !.keep = keep, !.items = items, !.discount = d] \in RequestType
    <3>1. pc \in Steps /\ items \in SUBSET Line
      BY <1>2, <2>3
    <3> QED BY <3>1, IdleTyped DEF RequestType
  <2> QED BY <2>1, <2>2, <2>4
<1>4. Begin(r, "billing", new)
  BY <1>1
<1> HIDE DEF new
<1>5. req'[r] = new /\ UNCHANGED quote
  BY <1>3, <1>4, BeginShape DEF IInv, Areas, billing
<1>6. (BillingSafe(r))'
  BY <1>1, <1>2, <1>3, <1>5 DEF BillingSafe, Editing
<1> QED BY <1>3, <1>4, <1>6, BillingBegun DEF BillingSteps

LEMMA StartDeleteStep ==
  ASSUME IInv, NEW r \in Requests, StartDelete(r)
  PROVE  IInv'
<1>1. PICK q \in Quotes :
        quote[q].st = "DRAFT" /\ Begin(r, "billing", [Idle EXCEPT !.pc = "delete", !.q = q])
  BY DEF StartDelete
<1> DEFINE new == [Idle EXCEPT !.pc = "delete", !.q = q]
<1>2. new \in RequestType /\ new.items = {} /\ new.q = q /\ new.pc = "delete"
  BY IdleTyped DEF RequestType, Steps, BillingSteps, Idle
<1>3. Begin(r, "billing", new)
  BY <1>1
<1> HIDE DEF new
<1>4. req'[r] = new /\ UNCHANGED quote
  BY <1>2, <1>3, BeginShape DEF IInv, Areas, billing
<1>5. (BillingSafe(r))'
  BY <1>1, <1>2, <1>4 DEF BillingSafe, Editing, Short
<1> QED BY <1>2, <1>3, <1>5, BillingBegun DEF BillingSteps

LEMMA StartConfirmStep ==
  ASSUME IInv, NEW r \in Requests, StartConfirm(r)
  PROVE  IInv'
<1>1. PICK q \in Quotes :
        /\ quote[q].st = "DRAFT"
        /\ Begin(r, "billing", [Idle EXCEPT !.pc = "confirm", !.q = q, !.items = quote[q].items,
                                  !.discount = quote[q].discount])
  BY DEF StartConfirm
<1> DEFINE new == [Idle EXCEPT !.pc = "confirm", !.q = q, !.items = quote[q].items,
                     !.discount = quote[q].discount]
<1>2. quote[q] \in QuoteType
  BY DEF IInv, BillingInv, BillingTyped
<1>3. /\ new \in RequestType /\ new.items = quote[q].items /\ new.discount = quote[q].discount
      /\ new.q = q /\ new.pc = "confirm"
  BY <1>2, IdleTyped DEF RequestType, QuoteType, Steps, BillingSteps, Idle
<1>4. Begin(r, "billing", new)
  BY <1>1
<1> HIDE DEF new
<1>5. req'[r] = new /\ UNCHANGED quote
  BY <1>3, <1>4, BeginShape DEF IInv, Areas, billing
<1>6. (BillingSafe(r))'
  BY <1>1, <1>3, <1>5 DEF BillingSafe, Editing
<1> QED BY <1>3, <1>4, <1>6, BillingBegun DEF BillingSteps

LEMMA StartPayStep ==
  ASSUME IInv, NEW r \in Requests, StartPay(r)
  PROVE  IInv'
<1>1. PICK q \in Quotes, a \in Amounts :
        /\ MayPay(bill[q], a)
        /\ Begin(r, "billing",
             [Idle EXCEPT !.pc = "pay", !.q = q, !.amount = a, !.paid = Paid(bill[q].payments)])
  BY DEF StartPay
<1> DEFINE paid == Paid(bill[q].payments)
<1> DEFINE new == [Idle EXCEPT !.pc = "pay", !.q = q, !.amount = a, !.paid = paid]
<1>2. bill[q].payments \subseteq Receipt
  BY DEF IInv, BillingInv, BillingTyped, BillType
<1>3. paid \in PaidType
  BY <1>2 DEF PaidType
<1>4. Begin(r, "billing", new)
  BY <1>1
<1> HIDE DEF paid
<1>5. new \in RequestType /\ new.items = {} /\ new.q = q /\ new.amount = a /\ new.pc = "pay"
  BY <1>3, IdleTyped DEF RequestType, Steps, BillingSteps, Idle
<1> HIDE DEF new
<1>6. req'[r] = new /\ UNCHANGED bill
  BY <1>4, <1>5, BeginShape DEF IInv, Areas, billing
<1>7. q \in Billed
  BY <1>1 DEF MayPay, Billed
<1>8. (BillingSafe(r))'
  BY <1>5, <1>6, <1>7 DEF BillingSafe, Editing, Short, Billed
<1> QED BY <1>4, <1>5, <1>8, BillingBegun DEF BillingSteps

\* What is left to show of the last write of a request.
LEMMA BillingWritten ==
  ASSUME IInv, NEW r \in Requests, NEW S, Write(r, S, "idle"), req[r].pc \in BillingSteps,
         UNCHANGED <<sales, papers>>, BillingTyped', IsFiniteSet(Receipts)', NumbersWithoutGaps',
         \A q \in Quotes : QuoteSafe(q)', \A p \in Requests \ {r} : BillingSafe(p)'
  PROVE  IInv'
<1>1. RequestsTyped' /\ Ends(r) /\ OthersMarked(r, S)
  BY LastWriteShape DEF IInv
<1>2. (BillingSafe(r))'
  BY <1>1 DEF Ends, BillingSafe, Short, Editing
<1>3. Turn(r, BillingSteps)
  BY <1>1, OthersKept DEF Turn, Ends
<1> QED BY <1>1, <1>2, <1>3, BillingMeans DEF BillingInv

LEMMA CreateClientStep ==
  ASSUME IInv, NEW r \in Requests, CreateClient(r)
  PROVE  IInv'
<1>1. CASE client # "none"
  BY <1>1, EndKept DEF CreateClient, Holding
<1>2. CASE client = "none"
  <2>1. /\ req[r].pc = "client" /\ client' = "USER" /\ Write(r, {}, "quote")
        /\ UNCHANGED <<quote, bill, next, sales, papers>>
    BY <1>2 DEF CreateClient
  <2>2. RequestsTyped' /\ Advances(r, "quote") /\ OthersMarked(r, {})
    BY <2>1, WriteShape DEF IInv, Steps, BillingSteps
  <2>3. ASSUME NEW q \in Requests PROVE BillingSafe(q)'
    <3>1. BillingSafe(q) /\ BillingSafe(r)
      BY DEF IInv, BillingInv
    <3>2. CASE q = r
      BY <2>1, <2>2, <3>1, <3>2 DEF BillingSafe, Advances, SameLocals, Editing
    <3>3. CASE q # r
      BY <2>1, <2>2, <3>1, <3>3 DEF BillingSafe, OthersMarked, Stays, Billed
    <3> QED BY <3>2, <3>3
  <2>4. (BillingTyped /\ IsFiniteSet(Receipts) /\ NumbersWithoutGaps /\ \A q \in Quotes : QuoteSafe(q))'
    BY <2>1 DEF IInv, BillingInv, BillingTyped, Receipts, NumbersWithoutGaps, Blank, Billed, QuoteSafe
  <2>5. Turn(r, BillingSteps)
    BY <2>1, <2>2, OthersKept DEF Turn, Advances, BillingSteps
  <2> QED BY <2>1, <2>2, <2>3, <2>4, <2>5, BillingMeans DEF BillingInv
<1> QED BY <1>1, <1>2

LEMMA ClearItemsStep ==
  ASSUME IInv, NEW r \in Requests, ClearItems(r)
  PROVE  IInv'
<1>1. req \in [Requests -> RequestType] /\ quote \in [Quotes -> QuoteType] /\ BillingSafe(r)
  BY DEF IInv, RequestsTyped, BillingInv, BillingTyped
<1> DEFINE new == [req[r] EXCEPT !.pc = "patch", !.seen = quote[req[r].q].items]
<1>2. /\ req[r].pc = "clear" /\ req' = [req EXCEPT ![r] = new]
      /\ UNCHANGED <<billing, sales, papers, left>>
  BY <1>1 DEF ClearItems
<1>3. req[r].q \in Quotes
  BY <1>1, <1>2 DEF BillingSafe, Editing
<1>4. new \in RequestType
  <2> DEFINE seen == quote[req[r].q].items
  <2>1. seen \in SUBSET Line
    BY <1>1, <1>3 DEF QuoteType
  <2> HIDE DEF seen
  <2> DEFINE old == req[r]
  <2>2. old \in RequestType
    BY <1>1
  <2> HIDE DEF old
  <2>3. "patch" \in Steps
    BY DEF Steps, BillingSteps
  <2>4. [old EXCEPT !.pc = "patch", !.seen = seen] \in RequestType
    BY <2>1, <2>2, <2>3 DEF RequestType
  <2> QED BY <2>4 DEF old, seen
<1>5. /\ new.pc = "patch" /\ new.seen = quote[req[r].q].items /\ new.q = req[r].q
      /\ new.items = req[r].items /\ new.keep = req[r].keep /\ new.overtaken = req[r].overtaken
  BY <1>1 DEF RequestType
<1> HIDE DEF new
<1>6. RequestsTyped' /\ req'[r] = new /\ OthersStay(r)
  BY <1>1, <1>2, <1>4 DEF RequestsTyped, OthersStay, Stays, IInv
<1>7. UNCHANGED quote
  BY <1>2 DEF billing
<1>8. (BillingSafe(r))'
  BY <1>1, <1>2, <1>5, <1>6, <1>7 DEF BillingSafe, Editing
<1>9. ASSUME NEW q \in Requests PROVE BillingQuiet(q)
  BY <1>6, <1>8 DEF OthersStay, BillingQuiet
<1>10. BillingInv'
  BY <1>2, <1>9, BillingKept DEF IInv
<1>11. Turn(r, BillingSteps)
  BY <1>2, <1>5, <1>6 DEF Turn, OthersStay, BillingSteps
<1> QED BY <1>2, <1>6, <1>10, <1>11, BillingMeans

LEMMA NextNumber ==
  ASSUME NEW n \in Nat \ {0}
  PROVE  (1 .. n - 1) \cup {n} = 1 .. (n + 1) - 1
OBVIOUS

LEMMA CreateQuoteStep ==
  ASSUME IInv, NEW r \in Requests, CreateQuote(r)
  PROVE  IInv'
<1> DEFINE b == Some(Blank)
<1> DEFINE new == [NoQuotation EXCEPT !.st = "DRAFT", !.no = next.quotation,
                     !.items = req[r].items, !.discount = req[r].discount]
<1>1. /\ req[r].pc = "quote" /\ Blank # {} /\ quote' = [quote EXCEPT ![b] = new]
      /\ next' = [next EXCEPT !.quotation = @ + 1]
      /\ Write(r, {}, "idle") /\ UNCHANGED <<client, bill, sales, papers>>
  BY DEF CreateQuote, Claim
<1>2. /\ b \in Quotes /\ quote[b].st = "none"
  BY <1>1, SomeIsIn DEF Blank
<1> HIDE DEF b
<1>3. /\ req[r] \in RequestType /\ quote \in [Quotes -> QuoteType] /\ next \in NumbersType
      /\ bill \in [Quotes -> BillType] /\ BillingSafe(r) /\ NumbersWithoutGaps
      /\ \A q \in Quotes : QuoteSafe(q)
  BY DEF IInv, RequestsTyped, BillingInv, BillingTyped
<1>4. /\ new \in QuoteType /\ new.st = "DRAFT" /\ new.no = next.quotation /\ new.items = req[r].items
  BY <1>1, <1>3, IdleTyped DEF RequestType, NumbersType, QuoteType, NoQuotation, BillingSafe
<1> HIDE DEF new
<1>5. next.quotation \in Nat \ {0} /\ next' \in NumbersType
      /\ next'.quotation = next.quotation + 1 /\ next'.bill = next.bill /\ next'.receipt = next.receipt
  BY <1>1, <1>3 DEF NumbersType
<1>6. BillingTyped'
  BY <1>1, <1>2, <1>3, <1>4, <1>5 DEF BillingTyped, IInv, BillingInv
<1>7. Receipts' = Receipts /\ Billed' = Billed
  BY <1>1 DEF Receipts, Billed
<1>8. Blank' = Blank \ {b}
  BY <1>1, <1>2, <1>3, <1>4 DEF Blank
<1>9. {quote'[q].no : q \in Quotes \ Blank'} = {quote[q].no : q \in Quotes \ Blank} \cup {next.quotation}
  BY <1>1, <1>2, <1>3, <1>4, <1>8 DEF Blank
<1>10. {quote'[q].no : q \in Quotes \ Blank'} = 1 .. next'.quotation - 1
  BY <1>3, <1>5, <1>9, NextNumber DEF NumbersWithoutGaps
<1>11. NumbersWithoutGaps'
  BY <1>1, <1>3, <1>5, <1>7, <1>10 DEF NumbersWithoutGaps
<1>12. IsFiniteSet(Receipts)'
  BY <1>7 DEF IInv, BillingInv
<1>13. ASSUME NEW q \in Quotes PROVE QuoteSafe(q)'
  <2>1. Short(req[r].items)
    BY <1>1, <1>3 DEF BillingSafe
  <2> QED BY <2>1, <1>1, <1>2, <1>3, <1>4 DEF QuoteSafe
<1>14. ASSUME NEW p \in Requests \ {r} PROVE BillingSafe(p)'
  <2>1. BillingSafe(p) /\ Stays(p)
    BY <1>1, LastWriteShape DEF IInv, BillingInv, OthersMarked
  <2> QED BY <2>1, <1>1, <1>2, <1>3, <1>7 DEF BillingSafe, Stays, Editing
<1> QED BY <1>1, <1>6, <1>11, <1>12, <1>13, <1>14, BillingWritten DEF BillingSteps

\* The numbers stay as they are when no quotation is created.
LEMMA NumbersKept ==
  ASSUME BillingInv, UNCHANGED <<client, bill, next>>, quote' \in [Quotes -> QuoteType],
         \A p \in Quotes : quote'[p].no = quote[p].no /\ (quote'[p].st = "none" <=> quote[p].st = "none")
  PROVE  BillingTyped' /\ NumbersWithoutGaps' /\ IsFiniteSet(Receipts)' /\ Billed' = Billed
<1>1. Receipts' = Receipts /\ Billed' = Billed
  BY DEF Receipts, Billed
<1>2. {quote'[p].no : p \in Quotes \ Blank'} = {quote[p].no : p \in Quotes \ Blank}
  BY DEF Blank
<1>3. {bill'[p].no : p \in Billed'} = {bill[p].no : p \in Billed}
  BY <1>1
<1>4. NumbersWithoutGaps'
  BY <1>1, <1>2, <1>3 DEF BillingInv, NumbersWithoutGaps
<1> QED BY <1>1, <1>4 DEF BillingInv, BillingTyped

\* Who had not read q is not concerned by what is written of it; who had is overtaken.
LEMMA OtherReaders ==
  ASSUME IInv, NEW r \in Requests, NEW q \in Quotes, OthersMarked(r, Readers(q)),
         \A p \in Quotes \ {q} : quote'[p] = quote[p], quote'[q].st # "none", Billed \subseteq Billed',
         NEW p \in Requests \ {r}
  PROVE  BillingSafe(p)'
<1>1. BillingSafe(p)
  BY DEF IInv, BillingInv
<1>2. CASE p \in Readers(q)
  <2>1. Marked(p)
    BY <1>2 DEF OthersMarked
  <2> QED BY <1>1, <1>2, <2>1 DEF BillingSafe, Marked, SameLocals, Readers, At, Editing
<1>3. CASE p \notin Readers(q)
  <2>1. Stays(p) /\ (req[p].pc \in Editing => req[p].q # q)
    BY <1>3 DEF OthersMarked, Readers, At, Editing
  <2> QED BY <1>1, <2>1 DEF BillingSafe, Stays
<1> QED BY <1>2, <1>3

LEMMA SavePatchStep ==
  ASSUME IInv, NEW r \in Requests, SavePatch(r)
  PROVE  IInv'
<1> DEFINE q == req[r].q
<1>1. req[r].pc = "patch"
  BY DEF SavePatch
<1>2. CASE quote[q].st = "gone"
  BY <1>1, <1>2, EndKept DEF SavePatch, Holding
<1>3. CASE quote[q].st # "gone"
  <2>1. /\ req[r] \in RequestType /\ quote \in [Quotes -> QuoteType] /\ BillingSafe(r) /\ BillingInv
        /\ q \in Quotes /\ quote[q].st # "none"
    BY <1>1 DEF IInv, RequestsTyped, BillingInv, BillingTyped, BillingSafe, Editing
  <2>2. PICK raced \in BOOLEAN : raced <=> (quote[q].raced \/ req[r].overtaken)
    OBVIOUS
  <2> DEFINE items == IF req[r].keep THEN quote[q].items ELSE (quote[q].items \ req[r].seen) \cup req[r].items
  <2> DEFINE discount == IF req[r].discount = Same THEN quote[q].discount ELSE req[r].discount
  <2> DEFINE new == [quote[q] EXCEPT !.items = items, !.discount = discount, !.raced = raced]
  <2>3. /\ Write(r, Readers(q), "idle") /\ UNCHANGED <<client, bill, next, sales, papers>>
        /\ quote' = [quote EXCEPT
             ![q].items = IF req[r].keep THEN @ ELSE (@ \ req[r].seen) \cup req[r].items,
             ![q].discount = IF req[r].discount = Same THEN @ ELSE req[r].discount,
             ![q].raced = @ \/ req[r].overtaken]
    BY <1>3 DEF SavePatch
  <2>4. items \in SUBSET Line /\ discount \in Discounts \cup {0}
    <3>1. /\ quote[q].items \subseteq Line /\ req[r].items \subseteq Line
          /\ quote[q].discount \in Discounts \cup {0} /\ req[r].discount \in Discounts \cup {0, Same}
      BY <2>1 DEF RequestType, QuoteType
    <3> QED BY <3>1
  <2>5. quote'[q] = new /\ quote' = [quote EXCEPT ![q] = quote'[q]]
    BY <2>1, <2>2, <2>3 DEF QuoteType
  <2> HIDE DEF items, discount
  <2>6. /\ new \in QuoteType /\ new.st = quote[q].st /\ new.no = quote[q].no
        /\ new.items = items /\ new.raced = raced
    <3> DEFINE old == quote[q]
    <3>1. old \in QuoteType
      BY <2>1
    <3> HIDE DEF old
    <3> DEFINE patched == [old EXCEPT !.items = items, !.discount = discount, !.raced = raced]
    <3>2. patched \in QuoteType
      BY <2>4, <3>1 DEF QuoteType
    <3>3. /\ patched.st = old.st /\ patched.no = old.no
          /\ patched.items = items /\ patched.raced = raced
      BY <3>1 DEF QuoteType
    <3> QED BY <3>2, <3>3 DEF old
  <2> HIDE DEF new
  <2>7. quote' \in [Quotes -> QuoteType] /\ \A p \in Quotes \ {q} : quote'[p] = quote[p]
    BY <2>1, <2>5, <2>6
  <2>8. \A p \in Quotes : quote'[p].no = quote[p].no /\ (quote'[p].st = "none" <=> quote[p].st = "none")
    BY <2>5, <2>6, <2>7
  <2>9. BillingTyped' /\ NumbersWithoutGaps' /\ IsFiniteSet(Receipts)' /\ Billed' = Billed
    BY <2>1, <2>3, <2>7, <2>8, NumbersKept
  <2>10. ASSUME NEW p \in Quotes PROVE QuoteSafe(p)'
    <3>1. QuoteSafe(p) /\ QuoteSafe(q)
      BY <2>1 DEF BillingInv
    <3>2. CASE p # q
      BY <2>3, <2>7, <3>1, <3>2 DEF QuoteSafe
    <3>3. ~raced => ~quote[q].raced /\ quote[q].st = "DRAFT" /\ (~req[r].keep => req[r].seen = quote[q].items)
      BY <1>1, <2>1, <2>2 DEF BillingSafe, Editing
    <3>4. ~raced => Short(items)
      BY <1>1, <2>1, <3>1, <3>3 DEF items, BillingSafe, Short, QuoteSafe
    <3>5. CASE p = q
      BY <2>3, <2>5, <2>6, <3>1, <3>3, <3>4, <3>5 DEF QuoteSafe
    <3> QED BY <3>2, <3>5
  <2>11. OthersMarked(r, Readers(q))
    BY <2>3, LastWriteShape DEF IInv
  <2>12. ASSUME NEW p \in Requests \ {r} PROVE BillingSafe(p)'
    BY <2>1, <2>5, <2>6, <2>7, <2>9, <2>11, OtherReaders
  <2> QED BY <1>1, <2>3, <2>9, <2>10, <2>12, BillingWritten DEF BillingSteps
<1> QED BY <1>2, <1>3

LEMMA DeleteQuoteStep ==
  ASSUME IInv, NEW r \in Requests, DeleteQuote(r)
  PROVE  IInv'
<1> DEFINE q == req[r].q
<1>1. req[r].pc = "delete"
  BY DEF DeleteQuote
<1>2. CASE DeleteRefused(q)
  BY <1>1, <1>2, EndKept DEF DeleteQuote, Holding
<1>3. CASE ~DeleteRefused(q)
  <2>1. /\ quote \in [Quotes -> QuoteType] /\ BillingInv /\ q \in Quotes /\ quote[q].st # "none"
        /\ bill[q].st = "none"
    BY <1>1, <1>3 DEF IInv, BillingInv, BillingTyped, BillingSafe, Editing, DeleteRefused
  <2> DEFINE new == [NoQuotation EXCEPT !.st = "gone", !.no = quote[q].no]
  <2>2. /\ quote' = [quote EXCEPT ![q] = new] /\ Write(r, Readers(q), "idle")
        /\ UNCHANGED <<client, bill, next, sales, papers>>
    BY <1>3 DEF DeleteQuote
  <2>3. new \in QuoteType /\ new.st = "gone" /\ new.no = quote[q].no /\ new.items = {}
    BY <2>1 DEF QuoteType, NoQuotation
  <2> HIDE DEF new
  <2>4. quote' \in [Quotes -> QuoteType] /\ quote'[q] = new /\ \A p \in Quotes \ {q} : quote'[p] = quote[p]
    BY <2>1, <2>2, <2>3
  <2>5. \A p \in Quotes : quote'[p].no = quote[p].no /\ (quote'[p].st = "none" <=> quote[p].st = "none")
    BY <2>1, <2>3, <2>4
  <2>6. BillingTyped' /\ NumbersWithoutGaps' /\ IsFiniteSet(Receipts)' /\ Billed' = Billed
    BY <2>1, <2>2, <2>4, <2>5, NumbersKept
  <2>7. ASSUME NEW p \in Quotes PROVE QuoteSafe(p)'
    <3>1. QuoteSafe(p)
      BY <2>1 DEF BillingInv
    <3> QED BY <2>1, <2>2, <2>3, <2>4, <3>1 DEF QuoteSafe, Short
  <2>8. OthersMarked(r, Readers(q))
    BY <2>2, LastWriteShape DEF IInv
  <2>9. ASSUME NEW p \in Requests \ {r} PROVE BillingSafe(p)'
    BY <2>1, <2>3, <2>4, <2>6, <2>8, OtherReaders
  <2> QED BY <1>1, <2>2, <2>6, <2>7, <2>9, BillingWritten DEF BillingSteps
<1> QED BY <1>2, <1>3

LEMMA ConfirmStep ==
  ASSUME IInv, NEW r \in Requests, Confirm(r)
  PROVE  IInv'
<1> DEFINE q == req[r].q
<1>1. req[r].pc = "confirm"
  BY DEF Confirm
<1>2. CASE quote[q].st = "gone" \/ bill[q].st # "none"
  BY <1>1, <1>2, EndKept DEF Confirm, Holding
<1>3. CASE quote[q].st # "gone" /\ bill[q].st = "none"
  <2>1. /\ req[r] \in RequestType /\ quote \in [Quotes -> QuoteType] /\ bill \in [Quotes -> BillType]
        /\ next \in NumbersType /\ BillingInv /\ BillingSafe(r) /\ q \in Quotes /\ quote[q].st # "none"
    BY <1>1 DEF IInv, RequestsTyped, BillingInv, BillingTyped, BillingSafe, Editing
  <2>2. PICK raced \in BOOLEAN : raced <=> (quote[q].raced \/ req[r].overtaken)
    OBVIOUS
  <2> DEFINE new == [NoBill EXCEPT !.st = "UNPAID", !.no = next.bill,
                       !.items = req[r].items, !.discount = req[r].discount]
  <2> DEFINE made == [quote[q] EXCEPT !.st = "CONFIRMED", !.raced = raced]
  <2>3. /\ bill' = [bill EXCEPT ![q] = new]
        /\ quote' = [quote EXCEPT ![q].st = "CONFIRMED", ![q].raced = @ \/ req[r].overtaken]
        /\ next' = [next EXCEPT !.bill = @ + 1] /\ Write(r, Readers(q), "idle")
        /\ UNCHANGED <<client, sales, papers>>
    BY <1>3 DEF Confirm, Claim
  <2>4. /\ new \in BillType /\ new.st = "UNPAID" /\ new.no = next.bill /\ new.items = req[r].items
        /\ new.discount = req[r].discount /\ new.payments = {}
    BY <2>1 DEF RequestType, BillType, NumbersType, NoBill
  <2>5. quote'[q] = made /\ quote' = [quote EXCEPT ![q] = quote'[q]]
    BY <2>1, <2>2, <2>3 DEF QuoteType
  <2>6. /\ made \in QuoteType /\ made.st = "CONFIRMED" /\ made.no = quote[q].no
        /\ made.items = quote[q].items /\ made.discount = quote[q].discount /\ made.raced = raced
    BY <2>1 DEF QuoteType
  <2> HIDE DEF new, made
  <2>7. /\ bill' \in [Quotes -> BillType] /\ bill'[q] = new
        /\ \A p \in Quotes \ {q} : bill'[p] = bill[p]
    BY <2>1, <2>3, <2>4
  <2>8. quote' \in [Quotes -> QuoteType] /\ \A p \in Quotes \ {q} : quote'[p] = quote[p]
    BY <2>1, <2>5, <2>6
  <2>9. /\ next.bill \in Nat \ {0} /\ next' \in NumbersType
        /\ next'.bill = next.bill + 1 /\ next'.quotation = next.quotation /\ next'.receipt = next.receipt
    BY <2>1, <2>3 DEF NumbersType
  <2>10. BillingTyped'
    BY <2>1, <2>3, <2>7, <2>8, <2>9 DEF BillingInv, BillingTyped
  <2>11. Billed' = Billed \cup {q} /\ q \notin Billed
    BY <1>3, <2>1, <2>4, <2>7 DEF Billed
  <2>12. bill[q].payments = {} /\ new.payments = {}
    BY <1>3, <2>1, <2>4 DEF BillingInv, QuoteSafe
  <2>13. Receipts' = Receipts
    BY <2>7, <2>12 DEF Receipts
  <2>14. {bill'[p].no : p \in Billed'} = {bill[p].no : p \in Billed} \cup {next.bill}
    BY <2>1, <2>4, <2>7, <2>11 DEF Billed
  <2>15. {bill'[p].no : p \in Billed'} = 1 .. next'.bill - 1
    BY <2>1, <2>9, <2>14, NextNumber DEF BillingInv, NumbersWithoutGaps
  <2>16. {quote'[p].no : p \in Quotes \ Blank'} = {quote[p].no : p \in Quotes \ Blank}
    BY <2>1, <2>5, <2>6, <2>8 DEF Blank
  <2>17. NumbersWithoutGaps'
    BY <2>1, <2>9, <2>13, <2>15, <2>16 DEF BillingInv, NumbersWithoutGaps
  <2>18. IsFiniteSet(Receipts)'
    BY <2>1, <2>13 DEF BillingInv
  <2>19. ASSUME NEW p \in Quotes PROVE QuoteSafe(p)'
    <3>1. QuoteSafe(p)
      BY <2>1 DEF BillingInv
    <3>2. CASE p # q
      BY <2>7, <2>8, <3>1, <3>2 DEF QuoteSafe
    <3>3. CASE p = q
      BY <1>1, <2>1, <2>2, <2>4, <2>5, <2>6, <2>7, <3>1, <3>3 DEF QuoteSafe, BillingSafe, Editing
    <3> QED BY <3>2, <3>3
  <2>20. OthersMarked(r, Readers(q))
    BY <2>3, LastWriteShape DEF IInv
  <2>21. ASSUME NEW p \in Requests \ {r} PROVE BillingSafe(p)'
    BY <2>1, <2>5, <2>6, <2>8, <2>11, <2>20, OtherReaders
  <2> QED BY <1>1, <2>3, <2>10, <2>17, <2>18, <2>19, <2>21, BillingWritten DEF BillingSteps
<1> QED BY <1>2, <1>3

LEMMA PayStep ==
  ASSUME IInv, NEW r \in Requests, Pay(r)
  PROVE  IInv'
<1> DEFINE q == req[r].q
<1> DEFINE receipt == [no |-> next.receipt, amount |-> req[r].amount]
<1> DEFINE status == PaidStatus(bill[q], req[r].paid + req[r].amount)
<1>1. /\ req[r].pc = "pay" /\ Write(r, Payers(q), "idle") /\ UNCHANGED <<client, quote, sales, papers>>
      /\ bill' = [bill EXCEPT ![q].payments = @ \cup {receipt}, ![q].st = status,
                              ![q].raced = @ \/ req[r].overtaken]
      /\ next' = [next EXCEPT !.receipt = @ + 1]
  BY DEF Pay, Claim
<1>2. /\ quote \in [Quotes -> QuoteType] /\ bill \in [Quotes -> BillType] /\ next \in NumbersType
      /\ BillingInv /\ q \in Billed /\ q \in Quotes /\ req[r].amount \in Amounts
  BY <1>1 DEF IInv, BillingInv, BillingTyped, BillingSafe, Billed
<1>3. next.receipt \in Nat \ {0} /\ next' \in NumbersType
      /\ next'.receipt = next.receipt + 1 /\ next'.quotation = next.quotation /\ next'.bill = next.bill
  BY <1>1, <1>2 DEF NumbersType
<1>4. receipt \in Receipt /\ receipt.no = next.receipt
  BY <1>2, <1>3 DEF Receipt
<1>5. status \in {"PAID", "PARTIALLY_PAID"}
  BY DEF PaidStatus
<1>6. PICK raced \in BOOLEAN : raced <=> (bill[q].raced \/ req[r].overtaken)
  OBVIOUS
<1> HIDE DEF receipt, status
<1> DEFINE new == [bill[q] EXCEPT !.payments = @ \cup {receipt}, !.st = status, !.raced = raced]
<1>7. bill'[q] = new /\ \A p \in Quotes \ {q} : bill'[p] = bill[p]
  <2>1. bill[q] \in BillType
    BY <1>2
  <2> QED BY <1>1, <1>2, <1>6, <2>1 DEF BillType
<1>8. /\ new \in BillType /\ new.st = status /\ new.no = bill[q].no /\ new.items = bill[q].items
      /\ new.discount = bill[q].discount /\ new.payments = bill[q].payments \cup {receipt}
  <2> DEFINE old == bill[q]
  <2> DEFINE payments == old.payments \cup {receipt}
  <2>1. old \in BillType
    BY <1>2
  <2> HIDE DEF old
  <2>2. payments \in SUBSET Receipt
    BY <1>4, <2>1 DEF BillType
  <2>3. status \in {"none", "UNPAID", "PARTIALLY_PAID", "PAID"}
    BY <1>5
  <2> HIDE DEF payments
  <2>4. [old EXCEPT !.payments = payments, !.st = status, !.raced = raced] \in BillType
    BY <2>1, <2>2, <2>3 DEF BillType
  <2>5. new = [old EXCEPT !.payments = payments, !.st = status, !.raced = raced]
    BY DEF old, payments
  <2>6. new.payments = payments /\ new.st = status /\ new.no = old.no /\ new.items = old.items
        /\ new.discount = old.discount
    BY <2>1, <2>5 DEF BillType
  <2> QED BY <2>4, <2>5, <2>6 DEF old, payments
<1> HIDE DEF new
<1>9. bill' \in [Quotes -> BillType] /\ \A p \in Quotes \ {q} : bill'[p] = bill[p]
  <2>1. bill' = [p \in Quotes |-> bill'[p]]
    BY <1>1, <1>2
  <2> QED BY <1>2, <1>7, <1>8, <2>1
<1>10. BillingTyped'
  BY <1>1, <1>2, <1>3, <1>9 DEF BillingInv, BillingTyped
<1>11. Billed' = Billed
  BY <1>2, <1>5, <1>7, <1>8, <1>9 DEF Billed
<1>12. Receipts' = Receipts \cup {receipt}
  BY <1>2, <1>7, <1>8, <1>9 DEF Receipts
<1>13. receipt \notin Receipts
  <2>1. next.receipt \notin 1 .. next.receipt - 1
    BY <1>3
  <2>2. {p.no : p \in Receipts} = 1 .. next.receipt - 1
    BY <1>2 DEF BillingInv, NumbersWithoutGaps
  <2> QED BY <1>4, <2>1, <2>2
<1>14. IsFiniteSet(Receipts)' /\ Cardinality(Receipts)' = next'.receipt - 1
  <2>1. IsFiniteSet(Receipts) /\ Cardinality(Receipts) = next.receipt - 1
    BY <1>2 DEF BillingInv, NumbersWithoutGaps
  <2>2. IsFiniteSet(Receipts \cup {receipt}) /\ Cardinality(Receipts \cup {receipt}) = Cardinality(Receipts) + 1
    BY <1>13, <2>1, FS_AddElement
  <2> QED BY <1>3, <1>12, <2>1, <2>2
<1>15. NumbersWithoutGaps'
  <2>1. {p.no : p \in Receipts'} = {p.no : p \in Receipts} \cup {next.receipt}
    BY <1>4, <1>12
  <2>2. {p.no : p \in Receipts'} = 1 .. next'.receipt - 1
    BY <1>2, <1>3, <2>1, NextNumber DEF BillingInv, NumbersWithoutGaps
  <2>3. {bill'[p].no : p \in Billed'} = {bill[p].no : p \in Billed}
    BY <1>7, <1>8, <1>9, <1>11 DEF Billed
  <2>4. Blank' = Blank /\ UNCHANGED quote
    BY <1>1 DEF Blank
  <2> QED BY <1>2, <1>3, <1>14, <2>2, <2>3, <2>4 DEF BillingInv, NumbersWithoutGaps
<1>16. ASSUME NEW p \in Quotes PROVE QuoteSafe(p)'
  <2>1. QuoteSafe(p)
    BY <1>2 DEF BillingInv
  <2>2. CASE p # q
    BY <1>1, <1>9, <2>1, <2>2 DEF QuoteSafe
  <2>3. CASE p = q
    BY <1>1, <1>2, <1>5, <1>7, <1>8, <2>1, <2>3 DEF QuoteSafe, Billed
  <2> QED BY <2>2, <2>3
<1>17. ASSUME NEW p \in Requests \ {r} PROVE BillingSafe(p)'
  <2>1. BillingSafe(p) /\ (Stays(p) \/ Marked(p))
    BY <1>1, <1>2, LastWriteShape, OthersKept DEF IInv, BillingInv
  <2> QED BY <1>1, <1>11, <2>1 DEF BillingSafe, Stays, Marked, SameLocals
<1> QED BY <1>1, <1>10, <1>14, <1>15, <1>16, <1>17, BillingWritten DEF BillingSteps

-----------------------------------------------------------------------------
(* The inquiry and its conversion.                                         *)

\* What the lemmas of the area start from.
LEMMA SalesFacts ==
  ASSUME IInv
  PROVE  /\ req \in [Requests -> RequestType] /\ inquiry \in InquiryType /\ event \in [Events -> EventType]
         /\ booking \subseteq BookingType /\ SalesInv /\ NoEvent \notin Events /\ DealsInv
         /\ \A q \in Requests : SalesSafe(q)
BY SlotsAssumption DEF IInv, RequestsTyped, DealsInv, SalesTyped

LEMMA SalesBegun ==
  ASSUME IInv, NEW r \in Requests, NEW new \in RequestType, Begin(r, "sales", new), new.items = {},
         new.pc = "event" \/ new.pc = "booking",
         new.pc = "event" => inquiry.event = NoEvent,
         new.pc = "booking" => new.e = NoEvent \/ (new.e \in Events /\ event[new.e].st # "none")
  PROVE  IInv'
<1>1. /\ RequestsTyped' /\ OthersStay(r) /\ req'[r] = new /\ req[r].pc = "idle"
      /\ UNCHANGED <<billing, sales, papers>>
  BY BeginShape DEF IInv, Areas
<1>2. ASSUME NEW q \in Requests PROVE SalesQuiet(q)
  BY <1>1 DEF OthersStay, SalesQuiet, Holding
<1>3. DealsInv'
  BY <1>1, <1>2, SalesKept DEF IInv
<1>4. Turn(r, SalesSteps)
  BY <1>1 DEF Turn, OthersStay, SalesSteps
<1>5. UNCHANGED event
  BY <1>1 DEF sales
<1> QED BY <1>1, <1>3, <1>4, <1>5, SalesMeans

LEMMA StartConvertStep ==
  ASSUME IInv, NEW r \in Requests, StartConvert(r)
  PROVE  IInv'
<1> DEFINE new == [Idle EXCEPT !.pc = "event"]
<1>1. inquiry.event = NoEvent /\ Begin(r, "sales", new)
  BY DEF StartConvert
<1>2. new \in RequestType /\ new.items = {} /\ new.pc = "event"
  BY IdleTyped DEF RequestType, Steps, SalesSteps, Idle
<1> HIDE DEF new
<1> QED BY <1>1, <1>2, SalesBegun

LEMMA StartBookingStep ==
  ASSUME IInv, NEW r \in Requests, StartBooking(r)
  PROVE  IInv'
<1>1. PICK e \in {NoEvent} \cup {x \in Events : event[x].st = "open"} :
        Begin(r, "sales", [Idle EXCEPT !.pc = "booking", !.e = e])
  BY DEF StartBooking
<1> DEFINE new == [Idle EXCEPT !.pc = "booking", !.e = e]
<1>2. new \in RequestType /\ new.items = {} /\ new.pc = "booking" /\ new.e = e
  BY IdleTyped DEF RequestType, Steps, SalesSteps, Idle
<1>3. Begin(r, "sales", new)
  BY <1>1
<1> HIDE DEF new
<1> QED BY <1>2, <1>3, SalesBegun

\* A conversion that ends before its time leaves a note of what it leaves behind.
LEMMA DropStep ==
  ASSUME IInv, NEW r \in Requests, Drop(r)
  PROVE  IInv'
<1>1. RequestsTyped' /\ Ends(r) /\ OthersStay(r) /\ UNCHANGED <<billing, event, booking, papers>>
  BY EndShape DEF IInv, Drop
<1>2. inquiry' = Loose(r) /\ inquiry \in InquiryType
  BY SalesFacts DEF Drop
<1>3. /\ inquiry' \in InquiryType /\ inquiry'.event = inquiry.event /\ inquiry'.raced = inquiry.raced
      /\ (inquiry.loose => inquiry'.loose) /\ (req[r].pc = "mark" => inquiry'.loose)
  BY <1>2 DEF Loose, InquiryType
<1>4. SalesTyped' /\ SameDeals
  <2>1. Made' = Made
    BY <1>1 DEF Made
  <2> QED BY <1>1, <1>3, <2>1, SalesFacts DEF DealsInv, SalesTyped, SameDeals, Has, SalesInv
<1>5. ASSUME NEW q \in Requests PROVE BillingQuiet(q) /\ SalesQuiet(q) /\ PapersQuiet(q)
  BY <1>1, <1>3 DEF Ends, OthersStay, BillingQuiet, BillingSafe, Short, SalesQuiet, PapersQuiet, PapersSafe,
     Editing, Holding
<1>6. BillingInv' /\ DealsInv' /\ PapersInv'
  BY <1>1, <1>4, <1>5, BillingKept, SalesGoOn, PapersKept DEF IInv
<1> QED BY <1>1, <1>6 DEF IInv

LEMMA CreateEventStep ==
  ASSUME IInv, NEW r \in Requests, CreateEvent(r)
  PROVE  IInv'
<1>1. PICK e \in Events :
        /\ req[r].pc = "event" /\ event[e].st = "none" /\ event' = [event EXCEPT ![e].st = "open"]
        /\ req' = [req EXCEPT ![r].pc = "invite", ![r].e = e]
        /\ UNCHANGED <<billing, inquiry, booking, papers, left>>
  BY DEF CreateEvent
<1>2. event[e] \in EventType /\ req[r] \in RequestType
  BY SalesFacts
<1> DEFINE open == [event[e] EXCEPT !.st = "open"]
<1> DEFINE new == [req[r] EXCEPT !.pc = "invite", !.e = e]
<1>3. open \in EventType /\ open.st = "open" /\ open.invite = event[e].invite
  BY <1>2 DEF EventType
<1>4. new \in RequestType
  <2> DEFINE old == req[r]
  <2>1. old \in RequestType
    BY <1>2
  <2> HIDE DEF old
  <2>2. "invite" \in Steps
    BY DEF Steps, SalesSteps
  <2>3. [old EXCEPT !.pc = "invite", !.e = e] \in RequestType
    BY <2>1, <2>2 DEF RequestType
  <2> QED BY <2>3 DEF old
<1>5. new.pc = "invite" /\ new.e = e /\ new.items = req[r].items /\ new.overtaken = req[r].overtaken
  BY <1>2 DEF RequestType
<1>6. req' = [req EXCEPT ![r] = new] /\ event' = [event EXCEPT ![e] = open] /\ left' = left
  BY <1>1
<1> HIDE DEF open, new
<1>7. RequestsTyped' /\ req'[r] = new /\ OthersStay(r)
  BY <1>4, <1>6, SalesFacts DEF RequestsTyped, IInv, OthersStay, Stays
<1>8. event' \in [Events -> EventType] /\ event'[e] = open /\ \A x \in Events \ {e} : event'[x] = event[x]
  BY <1>3, <1>6, SalesFacts
<1>9. SalesTyped'
  BY <1>1, <1>3, <1>8, SalesFacts DEF DealsInv, SalesTyped, BookingType
<1>10. \A x \in Events : (event[x].st # "none" => event'[x].st # "none") /\ (Has(x) => (Has(x))')
  BY <1>1, <1>3, <1>8 DEF Has
<1>11. SalesInv'
  <2>1. Made' = Made /\ \A b \in Made : b.of \in Events
    BY <1>1, SalesFacts DEF Made, BookingType
  <2>2. inquiry.event # NoEvent => inquiry.event \in Events
    BY SalesFacts DEF InquiryType
  <2>3. \A q \in Requests : req[q].pc = "mark" => req'[q].pc = "mark" /\ req'[q].e = req[q].e
    BY <1>1, <1>7 DEF OthersStay, Stays
  <2>4. inquiry.event # NoEvent => event'[inquiry.event].st = "gone" \/ event'[inquiry.event].invite
    BY <1>10, <2>2, SalesFacts DEF SalesInv, Has
  <2>5. \A b \in Made' : event'[b.of].st # "none"
    BY <1>10, <2>1, SalesFacts DEF SalesInv
  <2>6. inquiry.event # NoEvent => event'[inquiry.event].st # "none"
    BY <1>10, <2>2, SalesFacts DEF SalesInv
  <2>7. inquiry.event # NoEvent => \E b \in booking : b.of = inquiry.event
    BY SalesFacts DEF SalesInv
  <2>8. ~inquiry.raced /\ ~inquiry.loose =>
          \A b \in Made : b.of = inquiry.event \/ \E p \in Requests : req'[p].pc = "mark" /\ req'[p].e = b.of
    BY <2>3, SalesFacts DEF SalesInv
  <2>9. \A b, c \in Made : b.of = c.of => b = c
    BY SalesFacts DEF SalesInv
  <2> QED BY <1>1, <2>1, <2>4, <2>5, <2>6, <2>7, <2>8, <2>9 DEF SalesInv, Has
<1>12. ASSUME NEW q \in Requests PROVE SalesSafe(q)'
  <2>1. SalesSafe(q) /\ SalesSafe(r)
    BY SalesFacts
  <2>2. e # inquiry.event /\ \A b \in booking : b.of # e
    BY <1>1, SalesFacts DEF SalesInv, Made
  <2>3. \A p \in Requests \ {r} : req'[p] = req[p] /\ (req[p].pc \in Holding => req[p].e # e)
    BY <1>1, <1>7, SalesFacts DEF OthersStay, Stays, SalesSafe
  <2>4. CASE q = r
    <3>1. req'[r].pc = "invite" /\ req'[r].e = e /\ req'[r].overtaken = req[r].overtaken
      BY <1>5, <1>7
    <3>2. ~req[r].overtaken => inquiry.event = NoEvent
      BY <1>1, <2>1 DEF SalesSafe, Converting
    <3>3. \A p \in Requests : p # r /\ req'[p].pc \in Holding => req'[p].e # e
      BY <2>3
    <3>4. event'[e].st # "none"
      BY <1>3, <1>8
    <3> QED BY <1>1, <2>2, <2>4, <3>1, <3>2, <3>3, <3>4 DEF SalesSafe
  <2>5. CASE q # r
    <3>1. req'[q] = req[q]
      BY <2>3, <2>5
    <3>2. req[q].pc \in Holding =>
            /\ event'[req[q].e].st # "none"
            /\ \A p \in Requests : p # q /\ req'[p].pc \in Holding => req'[p].e # req[q].e
      BY <1>5, <1>7, <1>10, <2>1, <2>3, <2>5 DEF SalesSafe, Holding
    <3>3. req[q].pc \in {"book", "mark"} => event'[req[q].e].st = "gone" \/ event'[req[q].e].invite
      BY <1>10, <2>1 DEF SalesSafe, Holding, Has
    <3> QED BY <1>1, <1>10, <2>1, <3>1, <3>2, <3>3 DEF SalesSafe, Has
  <2> QED BY <2>4, <2>5
<1>13. Turn(r, SalesSteps)
  BY <1>1, <1>5, <1>7 DEF Turn, OthersStay, SalesSteps
<1>14. event'[Desk].st \in {event[Desk].st, "open"}
  BY <1>3, <1>8, SlotsAssumption
<1>15. DealsInv'
  BY <1>9, <1>11, <1>12 DEF DealsInv
<1> QED BY <1>1, <1>5, <1>7, <1>13, <1>14, <1>15, SalesMeans

\* What a conversion writes for its own event is no other conversion's concern.
LEMMA OtherDeals ==
  ASSUME IInv, NEW r \in Requests, req[r].pc \in Holding, req'[r].e = req[r].e, OthersMarked(r, {}),
         inquiry'.event = inquiry.event,
         \A x \in Events : (event[x].st # "none" => event'[x].st # "none") /\ (Has(x) => (Has(x))'),
         \A b \in booking : \E c \in booking' : c.of = b.of,
         \A c \in booking' : c.of = req[r].e \/ \E b \in booking : c.of = b.of,
         NEW p \in Requests \ {r}
  PROVE  SalesSafe(p)'
<1>1. SalesSafe(p) /\ SalesSafe(r) /\ \A q \in Requests \ {r} : req'[q] = req[q]
  BY SalesFacts DEF OthersMarked, Stays
<1>2. req[p].pc \in Holding => req[p].e # req[r].e /\ req[p].e \in Events
  BY <1>1 DEF SalesSafe
<1>3. req[p].pc \in Holding =>
        /\ event'[req[p].e].st # "none"
        /\ \A q \in Requests : q # p /\ req'[q].pc \in Holding => req'[q].e # req[p].e
  BY <1>1, <1>2 DEF SalesSafe
<1>4. req[p].pc \in {"invite", "book"} => \A b \in booking' : b.of # req[p].e
  BY <1>1, <1>2 DEF SalesSafe, Holding
<1>5. req[p].pc \in {"book", "mark"} => event'[req[p].e].st = "gone" \/ event'[req[p].e].invite
  BY <1>1, <1>2 DEF SalesSafe, Holding, Has
<1>6. req[p].pc = "mark" => \E b \in booking' : b.of = req[p].e
  BY <1>1 DEF SalesSafe
<1>7. req[p].pc = "booking" => req[p].e = NoEvent \/ (req[p].e \in Events /\ event'[req[p].e].st # "none")
  BY <1>1 DEF SalesSafe
<1> QED BY <1>1, <1>3, <1>4, <1>5, <1>6, <1>7 DEF SalesSafe, Has

LEMMA CreateInviteStep ==
  ASSUME IInv, NEW r \in Requests, CreateInvite(r)
  PROVE  IInv'
<1> DEFINE e == req[r].e
<1>1. CASE EventRefused(e)
  BY <1>1, DropStep DEF CreateInvite
<1>2. CASE ~EventRefused(e)
  <2>1. /\ req[r].pc = "invite" /\ event' = [event EXCEPT ![e].invite = TRUE]
        /\ Write(r, {}, "book") /\ UNCHANGED <<billing, inquiry, booking, papers>>
    BY <1>2 DEF CreateInvite
  <2>2. RequestsTyped' /\ Advances(r, "book") /\ OthersMarked(r, {})
    BY <2>1, WriteShape DEF IInv, Steps, SalesSteps
  <2>3. SalesSafe(r) /\ e \in Events /\ event[e] \in EventType
    BY <2>1, SalesFacts DEF SalesSafe, Holding
  <2> DEFINE new == [event[e] EXCEPT !.invite = TRUE]
  <2>4. new \in EventType /\ new.st = event[e].st /\ new.invite
    BY <2>3 DEF EventType
  <2>5. event' = [event EXCEPT ![e] = new]
    BY <2>1
  <2> HIDE DEF new
  <2>6. event' \in [Events -> EventType] /\ event'[e] = new /\ \A x \in Events \ {e} : event'[x] = event[x]
    BY <2>3, <2>4, <2>5, SalesFacts
  <2>7. \A x \in Events : event'[x].st = event[x].st /\ (Has(x) => (Has(x))')
    BY <2>4, <2>6 DEF Has
  <2>8. SalesTyped'
    BY <2>1, <2>6, <2>7, SalesFacts DEF DealsInv, SalesTyped, BookingType
  <2>9. SalesInv'
    <3>1. Made' = Made /\ \A b \in Made : b.of \in Events
      BY <2>1, SalesFacts DEF Made, BookingType
    <3>2. inquiry.event # NoEvent => inquiry.event \in Events
      BY SalesFacts DEF InquiryType
    <3>3. \A q \in Requests : req[q].pc = "mark" => req'[q].pc = "mark" /\ req'[q].e = req[q].e
      BY <2>1, <2>2 DEF OthersMarked, Stays
    <3>4. \A b \in Made' : event'[b.of].st # "none"
      BY <2>7, <3>1, SalesFacts DEF SalesInv
    <3>5. inquiry.event # NoEvent =>
            /\ event'[inquiry.event].st # "none"
            /\ event'[inquiry.event].st = "gone" \/ event'[inquiry.event].invite
            /\ \E b \in booking : b.of = inquiry.event
      BY <2>7, <3>2, SalesFacts DEF SalesInv, Has
    <3>6. ~inquiry.raced /\ ~inquiry.loose =>
            \A b \in Made : b.of = inquiry.event \/ \E p \in Requests : req'[p].pc = "mark" /\ req'[p].e = b.of
      BY <3>3, SalesFacts DEF SalesInv
    <3>7. \A b, c \in Made : b.of = c.of => b = c
      BY SalesFacts DEF SalesInv
    <3> QED BY <2>1, <3>1, <3>4, <3>5, <3>6, <3>7 DEF SalesInv, Has
  <2>10. ASSUME NEW q \in Requests PROVE SalesSafe(q)'
    <3>1. CASE q # r
      BY <2>1, <2>2, <2>7, <3>1, OtherDeals DEF Advances, SameLocals, Holding
    <3>2. (SalesSafe(r))'
      <4>1. req'[r].pc = "book" /\ req'[r].e = e /\ req'[r].overtaken = req[r].overtaken
        BY <2>2 DEF Advances, SameLocals
      <4>2. \A p \in Requests : p # r /\ req'[p].pc \in Holding => req'[p].e # e
        BY <2>1, <2>2, <2>3 DEF OthersMarked, Stays, SalesSafe, Holding
      <4>3. /\ event'[e].st # "none" /\ e # inquiry.event /\ event'[e].invite
            /\ \A b \in booking : b.of # e
            /\ ~req[r].overtaken => inquiry.event = NoEvent
        BY <2>1, <2>3, <2>4, <2>6 DEF SalesSafe, Holding, Converting
      <4> QED BY <2>1, <2>3, <4>1, <4>2, <4>3 DEF SalesSafe, Has
    <3> QED BY <3>1, <3>2
  <2>11. Turn(r, SalesSteps) /\ req'[r].items = req[r].items
    BY <2>1, <2>2, OthersKept DEF Turn, Advances, SameLocals, SalesSteps
  <2>12. event'[Desk].st = event[Desk].st
    BY <2>7, SlotsAssumption
  <2> QED BY <2>1, <2>2, <2>8, <2>9, <2>10, <2>11, <2>12, SalesMeans DEF DealsInv
<1> QED BY <1>1, <1>2

LEMMA BookStep ==
  ASSUME IInv, NEW r \in Requests, Book(r)
  PROVE  IInv'
<1> DEFINE e == req[r].e
<1> DEFINE new == [of |-> e, event |-> e, st |-> "confirmed"]
<1>1. CASE EventRefused(e)
  BY <1>1, DropStep DEF Book
<1>2. CASE ~EventRefused(e)
  <2>1. /\ req[r].pc = "book" /\ booking' = booking \cup {new}
        /\ Write(r, {}, "mark") /\ UNCHANGED <<billing, inquiry, event, papers>>
    BY <1>2 DEF Book
  <2>2. RequestsTyped' /\ Advances(r, "mark") /\ OthersMarked(r, {})
    BY <2>1, WriteShape DEF IInv, Steps, SalesSteps
  <2>3. /\ SalesSafe(r) /\ e \in Events /\ event[e] \in EventType /\ event[e].st = "open" /\ e # NoEvent
        /\ \A b \in booking : b.of # e
    BY <1>2, <2>1, SalesFacts DEF SalesSafe, Holding, EventRefused, EventType
  <2>4. new \in BookingType /\ new.of = e /\ new.event = e
    BY <2>3 DEF BookingType
  <2> HIDE DEF new
  <2>5. SalesTyped'
    BY <2>1, <2>3, <2>4, SalesFacts DEF DealsInv, SalesTyped
  <2>6. Made' = Made \cup {new}
    BY <2>1, <2>3, <2>4 DEF Made
  <2>7. req'[r].pc = "mark" /\ req'[r].e = e /\ req'[r].overtaken = req[r].overtaken
    BY <2>2 DEF Advances, SameLocals
  <2>8. SalesInv'
    <3>1. \A b, c \in Made' : b.of = c.of => b = c
      BY <2>3, <2>4, <2>6, SalesFacts DEF SalesInv, Made
    <3>2. \A b \in Made' : event'[b.of].st # "none"
      BY <2>1, <2>3, <2>4, <2>6, SalesFacts DEF SalesInv
    <3>3. inquiry.event # NoEvent =>
            /\ event[inquiry.event].st # "none" /\ Has(inquiry.event)
            /\ \E b \in booking' : b.of = inquiry.event
      BY <2>1, SalesFacts DEF SalesInv
    <3>4. ~inquiry.raced /\ ~inquiry.loose =>
            \A b \in Made' : b.of = inquiry.event \/ \E p \in Requests : req'[p].pc = "mark" /\ req'[p].e = b.of
      <4>1. \A q \in Requests : req[q].pc = "mark" => req'[q].pc = "mark" /\ req'[q].e = req[q].e
        BY <2>1, <2>2 DEF OthersMarked, Stays
      <4> QED BY <2>4, <2>6, <2>7, <4>1, SalesFacts DEF SalesInv
    <3> QED BY <2>1, <3>1, <3>2, <3>3, <3>4 DEF SalesInv, Has
  <2>9. ASSUME NEW q \in Requests PROVE SalesSafe(q)'
    <3>1. CASE q # r
      <4>1. \A x \in Events : (event[x].st # "none" => event'[x].st # "none") /\ (Has(x) => (Has(x))')
        BY <2>1 DEF Has
      <4> QED BY <2>1, <2>2, <2>4, <2>7, <3>1, <4>1, OtherDeals DEF Holding
    <3>2. (SalesSafe(r))'
      <4>1. \A p \in Requests : p # r /\ req'[p].pc \in Holding => req'[p].e # e
        BY <2>1, <2>2, <2>3 DEF OthersMarked, Stays, SalesSafe, Holding
      <4>2. /\ e # inquiry.event /\ (event[e].st = "gone" \/ event[e].invite)
            /\ ~req[r].overtaken => inquiry.event = NoEvent
        BY <2>1, <2>3 DEF SalesSafe, Holding, Converting, Has
      <4> QED BY <2>1, <2>3, <2>4, <2>7, <4>1, <4>2 DEF SalesSafe, Has
    <3> QED BY <3>1, <3>2
  <2>10. Turn(r, SalesSteps) /\ req'[r].items = req[r].items
    BY <2>1, <2>2, OthersKept DEF Turn, Advances, SameLocals, SalesSteps
  <2> QED BY <2>1, <2>2, <2>5, <2>8, <2>9, <2>10, SalesMeans DEF DealsInv
<1> QED BY <1>1, <1>2

LEMMA MarkStep ==
  ASSUME IInv, NEW r \in Requests, Mark(r)
  PROVE  IInv'
<1> DEFINE e == req[r].e
<1>1. /\ req[r].pc = "mark" /\ Write(r, At(Converting), "idle") /\ UNCHANGED <<billing, event, booking, papers>>
      /\ inquiry' = [inquiry EXCEPT !.st = "converted", !.event = e, !.raced = @ \/ req[r].overtaken]
  BY DEF Mark, Marks
<1>2. RequestsTyped' /\ Ends(r) /\ OthersMarked(r, At(Converting))
  BY <1>1, LastWriteShape DEF IInv
<1>3. /\ SalesSafe(r) /\ e \in Events /\ event[e].st # "none" /\ Has(e) /\ inquiry \in InquiryType
      /\ \E b \in booking : b.of = e
  BY <1>1, SalesFacts DEF SalesSafe, Holding
<1>4. PICK raced \in BOOLEAN : raced <=> (inquiry.raced \/ req[r].overtaken)
  OBVIOUS
<1>5. /\ inquiry' \in InquiryType /\ inquiry'.event = e
      /\ inquiry'.loose = inquiry.loose /\ inquiry'.raced = raced
  BY <1>1, <1>3, <1>4 DEF InquiryType
<1>6. SalesTyped' /\ Made' = Made
  BY <1>1, <1>5, SalesFacts DEF DealsInv, SalesTyped, Made
<1>7. \A q \in Requests \ {r} :
        /\ req'[q].pc = req[q].pc /\ req'[q].e = req[q].e
        /\ req[q].pc \in Converting => req'[q].overtaken
  BY <1>2, OthersKept DEF OthersMarked, At, Marked, Stays, SameLocals
<1>8. SalesInv'
  <2>1. ASSUME ~raced, ~inquiry.loose, NEW b \in Made
        PROVE  b.of = e \/ \E p \in Requests : req'[p].pc = "mark" /\ req'[p].e = b.of
    <3>1. ~inquiry.raced /\ inquiry.event = NoEvent /\ b.of # NoEvent
      BY <1>1, <1>3, <1>4, <2>1 DEF SalesSafe, Converting, Made
    <3>2. PICK p \in Requests : req[p].pc = "mark" /\ req[p].e = b.of
      BY <2>1, <3>1, SalesFacts DEF SalesInv
    <3> QED BY <1>7, <3>2
  <2> QED BY <1>1, <1>3, <1>5, <1>6, <2>1, SalesFacts DEF SalesInv, Has
<1>9. ASSUME NEW q \in Requests PROVE SalesSafe(q)'
  <2>1. CASE q = r
    BY <1>2, <2>1 DEF Ends, SalesSafe, Holding, Converting
  <2>2. CASE q # r
    <3>1. /\ SalesSafe(q) /\ req'[q].pc = req[q].pc /\ req'[q].e = req[q].e
          /\ req[q].pc \in Converting => req'[q].overtaken
      BY <1>7, <2>2, SalesFacts
    <3>2. req[q].pc \in Holding =>
            /\ req[q].e # e
            /\ \A p \in Requests : p # q /\ req'[p].pc \in Holding => req'[p].e # req[q].e
      BY <1>1, <1>2, <1>7, <2>2, <3>1 DEF SalesSafe, Holding, Ends
    <3> QED BY <1>1, <1>5, <3>1, <3>2 DEF SalesSafe, Has
  <2> QED BY <2>1, <2>2
<1>10. Turn(r, SalesSteps) /\ req'[r].items = {}
  BY <1>1, <1>2, OthersKept DEF Turn, Ends, SalesSteps
<1> QED BY <1>1, <1>2, <1>6, <1>8, <1>9, <1>10, SalesMeans DEF DealsInv

LEMMA SaveBookingStep ==
  ASSUME IInv, NEW r \in Requests, SaveBooking(r)
  PROVE  IInv'
<1> DEFINE new == [Manual EXCEPT !.event = req[r].e]
<1>1. CASE EventRefused(req[r].e)
  BY <1>1, EndKept DEF SaveBooking, Holding
<1>2. CASE ~EventRefused(req[r].e)
  <2>1. /\ req[r].pc = "booking" /\ booking' = booking \cup {new}
        /\ Write(r, {}, "idle") /\ UNCHANGED <<billing, inquiry, event, papers>>
    BY <1>2 DEF SaveBooking
  <2>2. RequestsTyped' /\ Ends(r) /\ OthersMarked(r, {})
    BY <2>1, LastWriteShape DEF IInv
  <2>3. req[r].e = NoEvent \/ (req[r].e \in Events /\ event[req[r].e].st = "open")
    BY <1>2, <2>1, SalesFacts DEF SalesSafe, EventRefused, EventType
  <2>4. new \in BookingType /\ new.of = NoEvent /\ new.event = req[r].e
    BY <2>3 DEF BookingType, Manual
  <2> HIDE DEF new
  <2>5. SalesTyped'
    BY <2>1, <2>3, <2>4, SalesFacts DEF DealsInv, SalesTyped
  <2>6. SameDeals
    <3>1. Made' = Made
      BY <2>1, <2>4 DEF Made
    <3> QED BY <2>1, <2>4, <3>1, SalesFacts DEF SameDeals, Has, SalesInv
  <2>7. ASSUME NEW q \in Requests PROVE SalesQuiet(q)
    BY <2>1, <2>2, OthersKept DEF SalesQuiet, Ends, Holding
  <2>8. DealsInv'
    BY <2>5, <2>6, <2>7, SalesGoOn, SalesFacts
  <2>9. Turn(r, SalesSteps) /\ req'[r].items = {}
    BY <2>1, <2>2, OthersKept DEF Turn, Ends, SalesSteps
  <2> QED BY <2>1, <2>2, <2>8, <2>9, SalesMeans
<1> QED BY <1>1, <1>2

-----------------------------------------------------------------------------
(* Writes in one statement.                                                *)

LEMMA OnceShape ==
  ASSUME IInv, NEW area \in Areas, NEW S, Once(area, S)
  PROVE  /\ RequestsTyped'
         /\ \A q \in Requests : (Stays(q) \/ Marked(q)) /\ (q \in S => Marked(q))
         /\ \A q \in Requests : BillingQuiet(q) /\ SalesQuiet(q) /\ PapersQuiet(q)
<1>1. req' \in [Requests -> RequestType] /\ \A q \in Requests : IF q \in S THEN Marked(q) ELSE Stays(q)
  BY MarkShape DEF IInv, Once
<1>2. left' \in [Areas -> Nat]
  BY CountShape DEF IInv, Once
<1>3. ASSUME NEW q \in Requests PROVE (Stays(q) \/ Marked(q)) /\ (q \in S => Marked(q))
  BY <1>1
<1> QED BY <1>1, <1>2, <1>3 DEF RequestsTyped, BillingQuiet, SalesQuiet, PapersQuiet

LEMMA InquiryStep ==
  ASSUME IInv, Inquire \/ SetStatus
  PROVE  IInv'
<1>1. PICK st \in {"new", "contacted", "converted", "lost"} :
        /\ inquiry' = [inquiry EXCEPT !.st = st]
        /\ Once("sales", {}) /\ UNCHANGED <<billing, event, booking, papers>>
  BY DEF Inquire, SetStatus
<1>2. RequestsTyped' /\ \A q \in Requests : BillingQuiet(q) /\ SalesQuiet(q) /\ PapersQuiet(q)
  BY <1>1, OnceShape DEF Areas
<1>3. /\ inquiry' \in InquiryType /\ inquiry'.event = inquiry.event /\ inquiry'.raced = inquiry.raced
      /\ inquiry'.loose = inquiry.loose
  BY <1>1, SalesFacts DEF InquiryType
<1>4. SalesTyped' /\ SameDeals
  <2>1. Made' = Made
    BY <1>1 DEF Made
  <2> QED BY <1>1, <1>3, <2>1, SalesFacts DEF DealsInv, SalesTyped, SameDeals, Has, SalesInv
<1>5. BillingInv' /\ DealsInv' /\ PapersInv'
  BY <1>1, <1>2, <1>4, BillingKept, SalesGoOn, PapersKept DEF IInv
<1> QED BY <1>2, <1>5 DEF IInv

LEMMA EditBookingStep ==
  ASSUME IInv, EditBooking
  PROVE  IInv'
<1>1. PICK b \in booking, st \in {"confirmed", "cancelled"},
           e \in {NoEvent} \cup {x \in Events : event[x].st = "open"} :
        /\ booking' = (booking \ {b}) \cup {[b EXCEPT !.st = st, !.event = e]}
        /\ Once("sales", {}) /\ UNCHANGED <<billing, inquiry, event, papers>>
  BY DEF EditBooking
<1> DEFINE new == [b EXCEPT !.st = st, !.event = e]
<1>2. new \in BookingType /\ new.of = b.of /\ new.event = e
  BY SalesFacts DEF BookingType
<1>3. booking' = (booking \ {b}) \cup {new}
  BY <1>1
<1> HIDE DEF new
<1>4. RequestsTyped' /\ \A q \in Requests : BillingQuiet(q) /\ SalesQuiet(q) /\ PapersQuiet(q)
  BY <1>1, OnceShape DEF Areas
<1>5. SalesTyped'
  BY <1>1, <1>2, <1>3, SalesFacts DEF DealsInv, SalesTyped
<1>6. SameDeals
  <2>1. \A c, d \in Made' : c.of = d.of => c = d
    BY <1>2, <1>3, SalesFacts DEF SalesInv, Made
  <2>2. \A c \in booking : \E d \in booking' : d.of = c.of
    BY <1>2, <1>3
  <2>3. \A d \in booking' : \E c \in booking : d.of = c.of
    BY <1>2, <1>3
  <2> QED BY <1>1, <2>1, <2>2, <2>3 DEF SameDeals, Has
<1>7. BillingInv' /\ DealsInv' /\ PapersInv'
  BY <1>1, <1>4, <1>5, <1>6, BillingKept, SalesGoOn, PapersKept DEF IInv
<1> QED BY <1>4, <1>7 DEF IInv

LEMMA DeleteEventStep ==
  ASSUME IInv, NEW area \in Areas, DeleteEvent(area)
  PROVE  IInv'
<1> DEFINE gone == [st |-> "gone", invite |-> FALSE]
<1>1. PICK e \in Events :
        /\ event[e].st = "open" /\ event' = [event EXCEPT ![e] = gone]
        /\ booking' = {IF b.event = e THEN [b EXCEPT !.event = NoEvent] ELSE b : b \in booking}
        /\ sheet' = IF e = Desk /\ sheet.st = "open" THEN [st |-> "gone", answers |-> {}] ELSE sheet
        /\ Once(area, {}) /\ UNCHANGED <<billing, inquiry, template, contract, form>>
  BY DEF DeleteEvent
<1>2. RequestsTyped' /\ \A q \in Requests : BillingQuiet(q) /\ SalesQuiet(q) /\ PapersQuiet(q)
  BY <1>1, OnceShape
<1> DEFINE freed(b) == IF b.event = e THEN [b EXCEPT !.event = NoEvent] ELSE b
<1>3. ASSUME NEW b \in booking
      PROVE  /\ freed(b) \in BookingType /\ freed(b).of = b.of
             /\ freed(b).event # e /\ (freed(b).event = NoEvent \/ freed(b).event = b.event)
  <2>1. b \in BookingType /\ e # NoEvent
    BY SalesFacts
  <2>2. CASE b.event = e
    BY <2>1, <2>2 DEF BookingType
  <2>3. CASE b.event # e
    BY <2>1, <2>3 DEF BookingType
  <2> QED BY <2>2, <2>3
<1>4. booking' = {freed(b) : b \in booking}
  BY <1>1
<1> HIDE DEF freed
<1>5. event' \in [Events -> EventType] /\ event'[e].st = "gone" /\ \A x \in Events \ {e} : event'[x] = event[x]
  BY <1>1, SalesFacts DEF EventType
<1>6. SalesTyped'
  <2>1. \A c \in booking' : c \in BookingType /\ (c.event = NoEvent \/ event'[c.event].st = "open")
    <3>1. ASSUME NEW b \in booking PROVE freed(b).event = NoEvent \/ event'[freed(b).event].st = "open"
      BY <1>3, <1>5, SalesFacts DEF DealsInv, SalesTyped, BookingType
    <3> QED BY <1>3, <1>4, <3>1
  <2> QED BY <1>1, <1>5, <2>1, SalesFacts DEF SalesTyped
<1>7. SameDeals
  <2>1. \A c \in booking : \E d \in booking' : d.of = c.of
    BY <1>3, <1>4
  <2>2. \A d \in booking' : \E c \in booking : d.of = c.of
    BY <1>3, <1>4
  <2>3. \A c, d \in Made' : c.of = d.of => c = d
    <3>1. ASSUME NEW c \in Made', NEW d \in Made', c.of = d.of PROVE c = d
      <4>1. PICK b \in booking : c = freed(b)
        BY <1>4 DEF Made
      <4>2. PICK a \in booking : d = freed(a)
        BY <1>4 DEF Made
      <4>3. b \in Made /\ a \in Made /\ b.of = a.of
        BY <1>3, <3>1, <4>1, <4>2 DEF Made
      <4> QED BY <4>1, <4>2, <4>3, SalesFacts DEF SalesInv
    <3> QED BY <3>1
  <2>4. \A x \in Events : (event[x].st # "none" => event'[x].st # "none") /\ (Has(x) => (Has(x))')
    BY <1>5 DEF Has
  <2> QED BY <1>1, <2>1, <2>2, <2>3, <2>4 DEF SameDeals
<1>8. PapersInv'
  <2>1. PapersTyped'
    BY <1>1, <1>5, SlotsAssumption DEF IInv, PapersInv, PapersTyped, SheetType
  <2>2. ASSUME NEW q \in Requests PROVE PapersSafe(q)'
    <3>1. PapersQuiet(q) /\ PapersSafe(q)
      BY <1>2 DEF IInv, PapersInv
    <3> QED BY <1>1, <3>1 DEF PapersQuiet, PapersSafe, Stays, Marked, SameLocals
  <2> QED BY <2>1, <2>2 DEF PapersInv
<1>9. BillingInv' /\ DealsInv'
  BY <1>1, <1>2, <1>6, <1>7, BillingKept, SalesGoOn DEF IInv
<1> QED BY <1>2, <1>8, <1>9 DEF IInv

-----------------------------------------------------------------------------
(* Contracts and questionnaires.                                           *)

LEMMA PapersFacts ==
  ASSUME IInv
  PROVE  /\ req \in [Requests -> RequestType] /\ PapersTyped /\ PapersInv
         /\ \A q \in Requests : PapersSafe(q)
BY DEF IInv, RequestsTyped, PapersInv

LEMMA PapersBegun ==
  ASSUME IInv, NEW r \in Requests, NEW new \in RequestType, Begin(r, "papers", new), new.items = {},
         new.pc \in PapersSteps, (PapersSafe(r))'
  PROVE  IInv'
<1>1. /\ RequestsTyped' /\ OthersStay(r) /\ req'[r] = new /\ req[r].pc = "idle"
      /\ UNCHANGED <<billing, sales, papers>>
  BY BeginShape DEF IInv, Areas
<1>2. ASSUME NEW q \in Requests PROVE PapersQuiet(q)
  BY <1>1 DEF OthersStay, PapersQuiet
<1>3. UNCHANGED event
  BY <1>1 DEF sales
<1>4. PapersInv'
  BY <1>1, <1>2, <1>3, PapersKept DEF IInv
<1>5. Turn(r, PapersSteps)
  BY <1>1 DEF Turn, OthersStay
<1> QED BY <1>1, <1>4, <1>5, PapersMeans

\* What is left to show of the last write of a request, and of a write in one statement.
LEMMA PapersWritten ==
  ASSUME IInv, NEW r \in Requests, NEW S, Write(r, S, "idle"), req[r].pc \in PapersSteps,
         UNCHANGED <<billing, sales>>, PapersTyped', \A p \in Requests \ {r} : PapersSafe(p)'
  PROVE  IInv'
<1>1. RequestsTyped' /\ Ends(r) /\ OthersMarked(r, S)
  BY LastWriteShape DEF IInv
<1>2. (PapersSafe(r))'
  BY <1>1 DEF Ends, PapersSafe
<1>3. Turn(r, PapersSteps)
  BY <1>1, OthersKept DEF Turn, Ends
<1>4. PapersInv'
  BY <1>2 DEF PapersInv
<1> QED BY <1>1, <1>3, <1>4, PapersMeans DEF Ends

LEMMA PapersOnce ==
  ASSUME IInv, NEW S, Once("papers", S), UNCHANGED <<billing, sales>>, PapersTyped',
         \A p \in Requests : PapersSafe(p)'
  PROVE  IInv'
<1>1. RequestsTyped' /\ \A q \in Requests : BillingQuiet(q) /\ SalesQuiet(q)
  BY OnceShape DEF Areas
<1>2. BillingInv' /\ DealsInv' /\ PapersInv'
  BY <1>1, BillingKept, SalesKept DEF IInv, PapersInv
<1> QED BY <1>1, <1>2 DEF IInv

\* Who signs or answers is not concerned by what neither the contract nor the form shows.
LEMMA OtherPapers ==
  ASSUME IInv, NEW p \in Requests, Stays(p) \/ Marked(p),
         \/ Marked(p)
         \/ /\ req[p].pc = "sign" => contract'.st = contract.st
            /\ req[p].pc = "answer" => form'.active = form.active /\ form'.questions = form.questions /\
                                       (form.st # "none" => form'.st # "none")
  PROVE  PapersSafe(p)'
BY PapersFacts DEF PapersSafe, Stays, Marked, SameLocals

LEMMA TemplateFileStep ==
  ASSUME IInv, NEW r \in Requests, SaveTemplateFile(r) \/ UnlinkTemplate(r)
  PROVE  IInv'
<1>1. PICK pc \in {"template", "untemplate"}, file \in BOOLEAN :
        /\ Count("papers") /\ req[r].pc = "idle"
        /\ template' = [template EXCEPT !.file = file] /\ req' = [req EXCEPT ![r].pc = pc]
        /\ UNCHANGED <<billing, sales, contract, form, sheet>>
  BY DEF SaveTemplateFile, UnlinkTemplate
<1> DEFINE new == [req[r] EXCEPT !.pc = pc]
<1>2. new \in RequestType /\ new.pc = pc /\ new.items = req[r].items
  BY PapersFacts DEF RequestType, Steps, PapersSteps
<1>3. req' = [req EXCEPT ![r] = new]
  BY <1>1
<1> HIDE DEF new
<1>4. left' \in [Areas -> Nat]
  BY <1>1, CountShape DEF IInv, Areas
<1>5. RequestsTyped' /\ req'[r] = new /\ OthersStay(r)
  BY <1>2, <1>3, <1>4, PapersFacts DEF RequestsTyped, OthersStay, Stays
<1>6. UNCHANGED event
  BY <1>1 DEF sales
<1>7. PapersTyped'
  BY <1>1, <1>6, PapersFacts DEF PapersTyped, TemplateType
<1>8. ASSUME NEW q \in Requests PROVE PapersSafe(q)'
  <2>1. CASE q = r
    BY <1>1, <1>2, <1>5, <2>1 DEF PapersSafe
  <2>2. CASE q # r
    BY <1>1, <1>5, <2>2, OtherPapers DEF OthersStay
  <2> QED BY <2>1, <2>2
<1>9. Turn(r, PapersSteps)
  BY <1>1, <1>2, <1>5 DEF Turn, OthersStay, PapersSteps
<1> QED BY <1>1, <1>2, <1>5, <1>7, <1>8, <1>9, PapersMeans DEF PapersInv

LEMMA CreateTemplateStep ==
  ASSUME IInv, NEW r \in Requests, CreateTemplate(r)
  PROVE  IInv'
<1>1. /\ req[r].pc = "template" /\ template' = [template EXCEPT !.row = "open"]
      /\ Write(r, {}, "idle") /\ UNCHANGED <<billing, sales, contract, form, sheet>>
  BY DEF CreateTemplate
<1>2. PapersTyped'
  BY <1>1, PapersFacts DEF PapersTyped, TemplateType, sales
<1>3. ASSUME NEW p \in Requests \ {r} PROVE PapersSafe(p)'
  BY <1>1, LastWriteShape, OtherPapers DEF IInv, OthersMarked
<1> QED BY <1>1, <1>2, <1>3, PapersWritten DEF PapersSteps

LEMMA DeleteTemplateStep ==
  ASSUME IInv, NEW r \in Requests, DeleteTemplate(r)
  PROVE  IInv'
<1>1. /\ req[r].pc = "untemplate" /\ template' = [template EXCEPT !.row = "gone"]
      /\ contract' = [contract EXCEPT !.template = FALSE]
      /\ Write(r, {}, "idle") /\ UNCHANGED <<billing, sales, form, sheet>>
  BY DEF DeleteTemplate
<1>2. PapersTyped' /\ contract'.st = contract.st
  BY <1>1, PapersFacts DEF PapersTyped, TemplateType, ContractType, sales
<1>3. ASSUME NEW p \in Requests \ {r} PROVE PapersSafe(p)'
  BY <1>1, <1>2, LastWriteShape, OtherPapers DEF IInv, OthersMarked
<1> QED BY <1>1, <1>2, <1>3, PapersWritten DEF PapersSteps

LEMMA StartContractStep ==
  ASSUME IInv, NEW r \in Requests, StartContract(r)
  PROVE  IInv'
<1>1. PICK on \in BOOLEAN : Begin(r, "papers", [Idle EXCEPT !.pc = "contract", !.on = on])
  BY DEF StartContract
<1> DEFINE new == [Idle EXCEPT !.pc = "contract", !.on = on]
<1>2. new \in RequestType /\ new.items = {} /\ new.pc = "contract"
  BY IdleTyped DEF RequestType, Steps, PapersSteps, Idle
<1>3. Begin(r, "papers", new)
  BY <1>1
<1> HIDE DEF new
<1>4. (PapersSafe(r))'
  BY <1>2, <1>3, BeginShape DEF IInv, Areas, PapersSafe
<1> QED BY <1>2, <1>3, <1>4, PapersBegun DEF PapersSteps

LEMMA SaveContractStep ==
  ASSUME IInv, NEW r \in Requests, SaveContract(r)
  PROVE  IInv'
<1> DEFINE refused == contract.st # "none" \/ (req[r].on /\ template.row # "open")
<1>1. CASE refused
  BY <1>1, EndKept DEF SaveContract, Holding
<1>2. CASE ~refused
  <2>1. /\ req[r].pc = "contract" /\ contract' = [st |-> "sent", name |-> "none", template |-> req[r].on]
        /\ Write(r, {}, "idle") /\ UNCHANGED <<billing, sales, template, form, sheet>>
        /\ contract.st = "none" /\ (req[r].on => template.row = "open") /\ req[r].on \in BOOLEAN
    BY <1>2, PapersFacts DEF SaveContract, RequestType
  <2>2. PapersTyped'
    BY <2>1, PapersFacts DEF PapersTyped, ContractType, sales
  <2>3. ASSUME NEW p \in Requests \ {r} PROVE PapersSafe(p)'
    BY <2>1, LastWriteShape, PapersFacts DEF IInv, OthersMarked, PapersSafe, Stays
  <2> QED BY <2>1, <2>2, <2>3, PapersWritten DEF PapersSteps
<1> QED BY <1>1, <1>2

LEMMA DeleteContractStep ==
  ASSUME IInv, DeleteContract
  PROVE  IInv'
<1>1. /\ contract' = [contract EXCEPT !.st = "gone"] /\ Once("papers", At({"sign"}))
      /\ UNCHANGED <<billing, sales, template, form, sheet>>
  BY DEF DeleteContract
<1>2. PapersTyped'
  BY <1>1, PapersFacts DEF PapersTyped, ContractType, sales
<1>3. ASSUME NEW p \in Requests PROVE PapersSafe(p)'
  <2>1. (Stays(p) \/ Marked(p)) /\ (p \in At({"sign"}) => Marked(p))
    BY <1>1, OnceShape DEF Areas
  <2> QED BY <1>1, <2>1, OtherPapers DEF At
<1> QED BY <1>1, <1>2, <1>3, PapersOnce

LEMMA StartSignStep ==
  ASSUME IInv, NEW r \in Requests, StartSign(r)
  PROVE  IInv'
<1>1. PICK n \in Names : Signable /\ Begin(r, "papers", [Idle EXCEPT !.pc = "sign", !.name = n])
  BY DEF StartSign
<1> DEFINE new == [Idle EXCEPT !.pc = "sign", !.name = n]
<1>2. new \in RequestType /\ new.items = {} /\ new.pc = "sign"
  BY IdleTyped DEF RequestType, Steps, PapersSteps, Idle
<1>3. Begin(r, "papers", new)
  BY <1>1
<1> HIDE DEF new
<1>4. (PapersSafe(r))'
  BY <1>1, <1>2, <1>3, BeginShape DEF IInv, Areas, PapersSafe, Signable, papers
<1> QED BY <1>2, <1>3, <1>4, PapersBegun DEF PapersSteps

LEMMA SignStep ==
  ASSUME IInv, NEW r \in Requests, Sign(r)
  PROVE  IInv'
<1>1. CASE contract.st = "gone"
  BY <1>1, EndKept DEF Sign, Holding
<1>2. CASE contract.st # "gone"
  <2>1. /\ req[r].pc = "sign" /\ contract' = [contract EXCEPT !.st = "signed", !.name = req[r].name]
        /\ Write(r, At({"sign"}), "idle") /\ UNCHANGED <<billing, sales, template, form, sheet>>
    BY <1>2 DEF Sign
  <2>2. req[r].name \in Names \cup {"none"}
    BY PapersFacts DEF RequestType
  <2>3. PapersTyped'
    BY <2>1, <2>2, PapersFacts DEF PapersTyped, ContractType, sales
  <2>4. ASSUME NEW p \in Requests \ {r} PROVE PapersSafe(p)'
    <3>1. (Stays(p) \/ Marked(p)) /\ (p \in At({"sign"}) => Marked(p))
      BY <2>1, LastWriteShape, OthersKept DEF IInv
    <3> QED BY <2>1, <3>1, OtherPapers DEF At
  <2> QED BY <2>1, <2>3, <2>4, PapersWritten DEF PapersSteps
<1> QED BY <1>1, <1>2

LEMMA CreateFormStep ==
  ASSUME IInv, CreateForm
  PROVE  IInv'
<1>1. PICK qs \in SUBSET Questions :
        /\ form.st = "none" /\ form' = [st |-> "open", active |-> TRUE, questions |-> qs]
        /\ Once("papers", {}) /\ UNCHANGED <<billing, sales, template, contract, sheet>>
  BY DEF CreateForm
<1>2. PapersTyped'
  BY <1>1, PapersFacts DEF PapersTyped, FormType, sales
<1>3. ASSUME NEW p \in Requests PROVE PapersSafe(p)'
  <2>1. Stays(p) \/ Marked(p)
    BY <1>1, OnceShape DEF Areas
  <2> QED BY <1>1, <2>1, PapersFacts DEF PapersSafe, Stays, Marked, SameLocals
<1> QED BY <1>1, <1>2, <1>3, PapersOnce

LEMMA EditFormStep ==
  ASSUME IInv, EditForm
  PROVE  IInv'
<1>1. PICK qs \in SUBSET Questions, active \in BOOLEAN :
        /\ form.st = "open" /\ form' = [form EXCEPT !.active = active, !.questions = qs]
        /\ Once("papers", At({"answer"})) /\ UNCHANGED <<billing, sales, template, contract, sheet>>
  BY DEF EditForm
<1>2. PapersTyped'
  BY <1>1, PapersFacts DEF PapersTyped, FormType, sales
<1>3. ASSUME NEW p \in Requests PROVE PapersSafe(p)'
  <2>1. (Stays(p) \/ Marked(p)) /\ (p \in At({"answer"}) => Marked(p))
    BY <1>1, OnceShape DEF Areas
  <2> QED BY <1>1, <2>1, OtherPapers DEF At
<1> QED BY <1>1, <1>2, <1>3, PapersOnce

LEMMA DeleteFormStep ==
  ASSUME IInv, DeleteForm
  PROVE  IInv'
<1>1. /\ form.st = "open" /\ form' = [form EXCEPT !.st = "gone"]
      /\ sheet' = IF sheet.st = "open" THEN [st |-> "gone", answers |-> {}] ELSE sheet
      /\ Once("papers", At({"answer"})) /\ UNCHANGED <<billing, sales, template, contract>>
  BY DEF DeleteForm
<1>2. PapersTyped'
  BY <1>1, PapersFacts DEF PapersTyped, FormType, SheetType, sales
<1>3. ASSUME NEW p \in Requests PROVE PapersSafe(p)'
  <2>1. (Stays(p) \/ Marked(p)) /\ (p \in At({"answer"}) => Marked(p))
    BY <1>1, OnceShape DEF Areas
  <2> QED BY <1>1, <2>1, OtherPapers DEF At
<1> QED BY <1>1, <1>2, <1>3, PapersOnce

LEMMA AssignStep ==
  ASSUME IInv, Assign
  PROVE  IInv'
<1>1. /\ form.st = "open" /\ event[Desk].st = "open" /\ sheet' = [sheet EXCEPT !.st = "open"]
      /\ Once("papers", {}) /\ UNCHANGED <<billing, sales, template, contract, form>>
  BY DEF Assign
<1>2. PapersTyped'
  BY <1>1, PapersFacts DEF PapersTyped, SheetType, sales
<1>3. ASSUME NEW p \in Requests PROVE PapersSafe(p)'
  <2>1. Stays(p) \/ Marked(p)
    BY <1>1, OnceShape DEF Areas
  <2> QED BY <1>1, <2>1, OtherPapers
<1> QED BY <1>1, <1>2, <1>3, PapersOnce

LEMMA StartAnswerStep ==
  ASSUME IInv, NEW r \in Requests, StartAnswer(r)
  PROVE  IInv'
<1>1. PICK answers \in SUBSET Questions :
        Answerable(answers) /\ Begin(r, "papers", [Idle EXCEPT !.pc = "answer", !.answers = answers])
  BY DEF StartAnswer
<1> DEFINE new == [Idle EXCEPT !.pc = "answer", !.answers = answers]
<1>2. new \in RequestType /\ new.items = {} /\ new.pc = "answer" /\ new.answers = answers
  BY IdleTyped DEF RequestType, Steps, PapersSteps, Idle
<1>3. Begin(r, "papers", new)
  BY <1>1
<1> HIDE DEF new
<1>4. (PapersSafe(r))'
  <2>1. form.st = "open" /\ form.active /\ answers \subseteq form.questions
    BY <1>1, PapersFacts DEF Answerable, PapersTyped
  <2> QED BY <1>2, <1>3, <2>1, BeginShape DEF IInv, Areas, PapersSafe, papers
<1> QED BY <1>2, <1>3, <1>4, PapersBegun DEF PapersSteps

LEMMA AnswerStep ==
  ASSUME IInv, NEW r \in Requests, Answer(r)
  PROVE  IInv'
<1>1. CASE sheet.st = "gone"
  BY <1>1, EndKept DEF Answer, Holding
<1>2. CASE sheet.st # "gone"
  <2>1. /\ req[r].pc = "answer" /\ sheet' = [sheet EXCEPT !.answers = req[r].answers]
        /\ Write(r, {}, "idle") /\ UNCHANGED <<billing, sales, template, contract, form>>
    BY <1>2 DEF Answer
  <2>2. req[r].answers \subseteq Questions
    BY PapersFacts DEF RequestType
  <2>3. PapersTyped'
    BY <2>1, <2>2, PapersFacts DEF PapersTyped, SheetType, sales
  <2>4. ASSUME NEW p \in Requests \ {r} PROVE PapersSafe(p)'
    BY <2>1, LastWriteShape, OthersKept, OtherPapers DEF IInv
  <2> QED BY <2>1, <2>3, <2>4, PapersWritten DEF PapersSteps
<1> QED BY <1>1, <1>2

-----------------------------------------------------------------------------
(* The invariant holds throughout.                                         *)

LEMMA InitInv == Init => IInv
<1> SUFFICES ASSUME Init PROVE IInv
  OBVIOUS
<1>1. RequestsTyped /\ \A r \in Requests : req[r] = Idle
  BY IdleTyped, SlotsAssumption DEF Init, RequestsTyped
<1>2. Receipts = {} /\ Billed = {} /\ Quotes \ Blank = {}
  BY DEF Init, Receipts, Billed, Blank, NoBill, NoQuotation
<1>3. NumbersWithoutGaps /\ IsFiniteSet(Receipts)
  <2>1. next.quotation = 1 /\ next.bill = 1 /\ next.receipt = 1
    BY DEF Init
  <2>2. IsFiniteSet({}) /\ Cardinality({}) = 0 /\ 1 .. 1 - 1 = {}
    BY FS_EmptySet
  <2> QED BY <1>2, <2>1, <2>2 DEF NumbersWithoutGaps
<1>4. BillingTyped
  <2>1. NoQuotation \in QuoteType /\ NoBill \in BillType
    BY DEF NoQuotation, NoBill, QuoteType, BillType
  <2> QED BY <2>1 DEF Init, BillingTyped, NumbersType
<1>5. ASSUME NEW q \in Quotes PROVE QuoteSafe(q)
  BY DEF Init, QuoteSafe, NoQuotation, NoBill, Short
<1>6. SalesTyped /\ SalesInv /\ PapersTyped
  BY SlotsAssumption
  DEF Init, SalesTyped, SalesInv, Made, PapersTyped, InquiryType, EventType, TemplateType, ContractType,
      FormType, SheetType
<1>7. ASSUME NEW r \in Requests PROVE BillingSafe(r) /\ SalesSafe(r) /\ PapersSafe(r)
  BY <1>1, IdleTyped DEF BillingSafe, SalesSafe, PapersSafe, Short, Editing, Holding, Converting
<1> QED BY <1>1, <1>3, <1>4, <1>5, <1>6, <1>7 DEF IInv, BillingInv, DealsInv, PapersInv

LEMMA StepInv == IInv /\ [Next]_vars => IInv'
<1> SUFFICES ASSUME IInv, [Next]_vars PROVE IInv'
  OBVIOUS
<1>1. ASSUME NEW r \in Requests, BillingStep(r) PROVE IInv'
  BY <1>1, StartQuoteStep, CreateClientStep, CreateQuoteStep, StartPatchStep, ClearItemsStep, SavePatchStep,
     StartDeleteStep, DeleteQuoteStep, StartConfirmStep, ConfirmStep, StartPayStep, PayStep DEF BillingStep
<1>2. ASSUME NEW r \in Requests, SalesStep(r) PROVE IInv'
  BY <1>2, StartConvertStep, CreateEventStep, CreateInviteStep, BookStep, MarkStep, StartBookingStep,
     SaveBookingStep DEF SalesStep
<1>3. ASSUME NEW r \in Requests, PapersStep(r) PROVE IInv'
  BY <1>3, TemplateFileStep, CreateTemplateStep, DeleteTemplateStep, StartContractStep, SaveContractStep,
     StartSignStep, SignStep, StartAnswerStep, AnswerStep DEF PapersStep
<1>4. ASSUME NEW r \in Requests, BreakOff(r) PROVE IInv'
  BY <1>4, DropStep DEF BreakOff
<1>5. CASE OneStatement
  BY <1>5, InquiryStep, EditBookingStep, DeleteEventStep, DeleteContractStep, CreateFormStep, EditFormStep,
     DeleteFormStep, AssignStep DEF OneStatement, Areas
<1>6. CASE UNCHANGED vars
  <2>1. UNCHANGED <<billing, sales, papers, req, left>>
    BY <1>6 DEF vars
  <2>2. ASSUME NEW q \in Requests PROVE BillingQuiet(q) /\ SalesQuiet(q) /\ PapersQuiet(q)
    BY <2>1 DEF BillingQuiet, SalesQuiet, PapersQuiet, Stays
  <2>3. BillingInv' /\ DealsInv' /\ PapersInv'
    BY <2>1, <2>2, BillingKept, SalesKept, PapersKept DEF IInv, sales
  <2> QED BY <2>1, <2>3 DEF IInv, RequestsTyped
<1> QED BY <1>1, <1>2, <1>3, <1>4, <1>5, <1>6 DEF Next

\* The bookkeeping behind the studio's papers holds throughout, for any number
\* of quotations, events and requests (billing.js, studio.js).
THEOREM StudioDeskInvariant == Spec => []IInv
BY InitInv, StepInv, PTL DEF Spec

-----------------------------------------------------------------------------
(* What a studio and its clients may rely on.                              *)

LEMMA ShortIsShort ==
  ASSUME NEW items, Short(items)
  PROVE  Cardinality(items) <= 1
<1>1. CASE items = {}
  BY <1>1, FS_EmptySet
<1>2. CASE \E i \in Line : items = {i}
  BY <1>2, FS_Singleton
<1> QED BY <1>1, <1>2 DEF Short

LEMMA InvStudio == IInv => StudioInv
<1> SUFFICES ASSUME IInv PROVE StudioInv
  OBVIOUS
<1>1. BillingTyped /\ NumbersWithoutGaps /\ SalesTyped /\ PapersTyped
  BY DEF IInv, BillingInv, DealsInv, PapersInv
<1>2. TypeOK
  <2>1. \A k \in DOMAIN next : next[k] \in Nat \ {0}
    BY <1>1 DEF BillingTyped, NumbersType
  <2>2. \A q \in Quotes :
          /\ bill[q].st \in {"none", "UNPAID", "PARTIALLY_PAID", "PAID"} /\ bill[q].no \in Nat
          /\ bill[q].items \subseteq Line /\ bill[q].payments \subseteq [no : Nat, amount : Amounts]
    BY <1>1 DEF BillingTyped, BillType, Receipt
  <2>3. client \in {"none", "USER", "staff"} /\ quote \in [Quotes -> QuoteType]
    BY <1>1 DEF BillingTyped
  <2>4. /\ inquiry.st \in {"none", "new", "contacted", "converted", "lost"}
        /\ inquiry.event \in Events \cup {NoEvent}
        /\ \A e \in Events : event[e].st \in {"none", "open", "gone"}
        /\ \A b \in booking : b.event = NoEvent \/ event[b.event].st = "open"
    BY <1>1 DEF SalesTyped, InquiryType, EventType
  <2>5. /\ template.row \in {"none", "open", "gone"} /\ (contract.template => template.row = "open")
        /\ contract.name \in Names \cup {"none"} /\ sheet.answers \subseteq Questions
        /\ sheet.st = "open" => form.st = "open" /\ event[Desk].st = "open"
    BY <1>1 DEF PapersTyped, TemplateType, ContractType, SheetType
  <2> QED BY <2>1, <2>2, <2>3, <2>4, <2>5 DEF TypeOK, QuoteType
<1>3. BillsAsQuoted
  BY ShortIsShort DEF IInv, BillingInv, QuoteSafe, BillsAsQuoted
<1> QED BY <1>1, <1>2, <1>3 DEF StudioInv

\* A bill is as its quotation was confirmed, unless two requests overlapped on
\* it; the numbers of quotations, bills and receipts have no gap and no double;
\* and no row names a row that has gone (billing.js, studio.js).
THEOREM BillsHold == Spec => []StudioInv
BY StudioDeskInvariant, InvStudio, PTL

LEMMA InvConverted == IInv => ConvertedMeansBooked
<1> SUFFICES ASSUME IInv, inquiry.event # NoEvent
             PROVE  /\ event[inquiry.event].st = "gone" \/ event[inquiry.event].invite
                    /\ \E b \in Made : b.of = inquiry.event
                    /\ inquiry.raced \/ inquiry.loose \/ At(Converting) # {} \/ Cardinality(Made) = 1
  BY DEF ConvertedMeansBooked, Made
<1>1. SalesInv
  BY DEF IInv, DealsInv
<1>2. PICK b \in Made : b.of = inquiry.event
  BY <1>1 DEF SalesInv, Made
<1>3. ASSUME ~inquiry.raced, ~inquiry.loose, At(Converting) = {}
      PROVE  Cardinality(Made) = 1
  <2>1. \A c \in Made : c.of = inquiry.event
    BY <1>1, <1>3 DEF SalesInv, At, Converting
  <2>2. Made = {b}
    BY <1>1, <1>2, <2>1 DEF SalesInv
  <2> QED BY <2>2, FS_Singleton
<1>4. event[inquiry.event].st = "gone" \/ event[inquiry.event].invite
  BY <1>1 DEF SalesInv, Has
<1> QED BY <1>2, <1>3, <1>4

\* An inquiry that names an event has been converted into it once: the invite
\* and the booking are there, and no second booking, unless conversions
\* overlapped or broke off (studio.js, POST /inquiries/:id/convert).
THEOREM ConvertedOnce == Spec => []ConvertedMeansBooked
BY StudioDeskInvariant, InvConverted, PTL

\* The answers change by an answer, or with the sheet itself.
LEMMA SheetSteps ==
  ASSUME [Next]_vars
  PROVE  \/ UNCHANGED sheet \/ \E r \in Requests : Answer(r)
         \/ DeleteForm \/ Assign \/ \E area \in Areas : DeleteEvent(area)
<1>1. ASSUME NEW r \in Requests, BillingStep(r) PROVE UNCHANGED sheet
  <2>1. CASE StartQuote(r) \/ StartPatch(r) \/ StartDelete(r) \/ StartConfirm(r) \/ StartPay(r)
    BY <2>1 DEF StartQuote, StartPatch, StartDelete, StartConfirm, StartPay, Begin, papers
  <2>2. CASE CreateClient(r) \/ CreateQuote(r) \/ ClearItems(r) \/ Pay(r)
    BY <2>2 DEF CreateClient, CreateQuote, ClearItems, Pay, End, papers
  <2>3. CASE SavePatch(r) \/ DeleteQuote(r) \/ Confirm(r)
    BY <2>3 DEF SavePatch, DeleteQuote, Confirm, End, papers
  <2> QED BY <1>1, <2>1, <2>2, <2>3 DEF BillingStep
<1>2. ASSUME NEW r \in Requests, SalesStep(r) PROVE UNCHANGED sheet
  BY <1>2 DEF SalesStep, StartConvert, CreateEvent, CreateInvite, Book, Mark, StartBooking, SaveBooking,
     Begin, Drop, End, papers
<1>3. ASSUME NEW r \in Requests, PapersStep(r), ~Answer(r) PROVE UNCHANGED sheet
  BY <1>3 DEF PapersStep, SaveTemplateFile, CreateTemplate, UnlinkTemplate, DeleteTemplate, StartContract,
     SaveContract, StartSign, Sign, StartAnswer, Begin, End, papers
<1>4. ASSUME NEW r \in Requests, BreakOff(r) PROVE UNCHANGED sheet
  BY <1>4 DEF BreakOff, Drop, papers
<1>5. CASE OneStatement
  BY <1>5 DEF OneStatement, Inquire, SetStatus, EditBooking, DeleteContract, CreateForm, EditForm, papers, Areas
<1>6. CASE UNCHANGED vars
  BY <1>6 DEF vars, papers
<1> QED BY <1>1, <1>2, <1>3, <1>4, <1>5, <1>6 DEF Next

LEMMA StepStands ==
  ASSUME IInv, [Next]_vars, NEW r \in Requests, req'[r] = Idle, ~req[r].overtaken
  PROVE  /\ req[r].pc = "sign" /\ contract.st = "signed" => contract'.name = contract.name
         /\ req[r].pc = "answer" /\ sheet'.answers # sheet.answers =>
              form.active /\ sheet'.answers \subseteq form.questions
<1>1. PapersSafe(r)
  BY PapersFacts
<1>2. ASSUME req[r].pc = "answer", sheet'.answers # sheet.answers PROVE Answer(r)
  <2>1. ~(Stays(r) \/ Marked(r))
    BY <1>2, IdleTyped DEF Stays, Marked
  <2>2. ~DeleteForm /\ ~Assign /\ ~\E area \in Areas : DeleteEvent(area)
    BY <2>1, OnceShape DEF DeleteForm, Assign, DeleteEvent, Areas
  <2>3. ASSUME NEW q \in Requests \ {r}, Answer(q) PROVE FALSE
    BY <1>2, <2>1, <2>3, LastWriteShape, EndShape, OthersKept DEF Answer, IInv, End, OthersStay
  <2> QED BY <1>2, <2>2, <2>3, SheetSteps
<1>3. ASSUME Answer(r), sheet'.answers # sheet.answers PROVE sheet'.answers = req[r].answers
  BY <1>3, PapersFacts DEF Answer, End, papers, PapersTyped, SheetType
<1> QED BY <1>1, <1>2, <1>3 DEF PapersSafe

\* No later acceptance replaces a signature and answers are saved only to
\* questions that are asked, unless what the request had found was changed
\* before it wrote (client.js).
THEOREM PapersStand == Spec => ClientPapersStand
<1> DEFINE Stand ==
      \A r \in Requests : req'[r] = Idle /\ ~req[r].overtaken =>
        /\ req[r].pc = "sign" /\ contract.st = "signed" => contract'.name = contract.name
        /\ req[r].pc = "answer" /\ sheet'.answers # sheet.answers =>
             form.active /\ sheet'.answers \subseteq form.questions
<1>1. IInv /\ [Next]_vars => Stand
  BY StepStands
<1>2. IInv /\ [Next]_vars => [Stand]_vars
  BY <1>1
<1> QED BY <1>2, StudioDeskInvariant, PTL DEF Spec, ClientPapersStand

=============================================================================
