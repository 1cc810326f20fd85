------------------------------- MODULE Console -------------------------------
(***************************************************************************)
(* The seeded console (console/actions.js and the handlers of screens.js,  *)
(* screens2.js and boot.js): one request is priced and booked, and the     *)
(* shipment it becomes is moved, cleared through customs, invoiced, paid   *)
(* and audited.                                                            *)
(*                                                                         *)
(* The program has one thread, so a handler is one step.  Whoever sits at  *)
(* it changes seats at will and the forms survive it (boot.js:20-35): a    *)
(* step names the user whose seat it is taken from.  The clock is in hours *)
(* and moves with the work, and with a ticker that also runs the overdue   *)
(* sweep.  Documents, parties and rolled bookings are left out: nothing    *)
(* here reads what they write.                                             *)
(*                                                                         *)
(* MaxTicks, MaxToggles, MaxInvoices, MaxAudits, MaxDecisions and          *)
(* MaxPrices are bounds; one shipment is booked, and an invoice is paid in *)
(* halves under at most two references.                                    *)
(***************************************************************************)
EXTENDS Naturals, Sequences, FiniteSets, Functions, TLC

R == INSTANCE ConsoleRules

CONSTANTS
  Seats,       \* the users: tenant and roles of each
  Book,        \* the cards and margin rules of each tenant
  Agents,      \* the tenants that pay the platform a fee, in basis points
  Registered,  \* the tenants with a VAT number
  Aliases,     \* the spellings of codes each tenant has recorded
  Spellings,   \* the spellings the taxonomy knows
  Tariff,      \* the agency tariff of each tenant: from code to price
  Lanes,       \* the requests the form can hold
  GoodsValue,  \* what a million cents of the goods is scaled to
  GoodsRates,  \* rates of duty the classification may find; -1 for no match
  Terms,       \* payment terms, in hours
  Benchmark,   \* what the fuel index implies, when it is live
  Hours,       \* how long the ticker runs between two steps of work
  MaxTicks, MaxToggles, MaxInvoices, MaxAudits, MaxDecisions, MaxPrices

VARIABLES
  form,       \* the request, whether a price stands under it, and prices raised
  cargo,      \* the consignments recorded, by tenant
  shipment,   \* the shipment, once booked
  entry,      \* its customs entry
  filing,     \* the state of its declaration to SARS
  charges,    \* its charges
  invoices,   \* their invoices
  payments,   \* references credited, with what was credited
  exceptions, \* the findings stored, by invoice, code and charge
  feeds,      \* the external feeds that are live, and how often one was turned
  hours,      \* the clock, and how often the ticker ran
  audited     \* history: the findings of each invoice's last audit, audits, decisions

consoleVars == <<form, cargo, shipment, entry, filing, charges, invoices, payments,
                 exceptions, feeds, hours, audited>>

Unbooked == [tenant |-> "none", lane |-> "none", step |-> 0, events |-> {}, lines |-> <<>>,
             boxes |-> 0, discharged |-> R!Unrecorded, gateOut |-> R!Unrecorded,
             emptied |-> R!Unrecorded]
NoEntry ==
  [status |-> "none", coded |-> FALSE, rate |-> 0, confirmed |-> FALSE, late |-> FALSE]

ConsoleInit ==
  /\ form \in {[lane |-> lane, priced |-> FALSE, prices |-> 0] : lane \in DOMAIN Lanes}
  /\ cargo = <<>> /\ shipment = Unbooked /\ entry = NoEntry /\ filing = "none"
  /\ charges = <<>> /\ invoices = <<>> /\ payments = {} /\ exceptions = <<>>
  /\ feeds = [live |-> {}, turned |-> 0]
  /\ hours = [now |-> 0, ticks |-> 0]
  /\ audited = [found |-> <<>>, count |-> 0, decided |-> 0]

Booked == shipment # Unbooked

\* hasRole, from a seat of the tenant whose screens show the shipment.
May(user, role) == Booked /\ user.tenant = shipment.tenant /\ role \in user.roles
Sees(user) == Booked /\ user.tenant = shipment.tenant

(***************************************************************************)
(* Charges.                                                                *)
(***************************************************************************)
Lifecycle ==
  <<"container.gated_in", "container.loaded", "vessel.departed", "vessel.arrived",
    "container.discharged", "entry.submitted", "entry.released", "container.gated_out",
    "pod.confirmed">>

Payable(e) ==
  IF e = NoEntry THEN 0
  ELSE R!EntryPayable(<<[value |-> GoodsValue * (45 + 38 * shipment.boxes), rateBps |-> e.rate,
                         sacu |-> FALSE]>>)

\* pushCharge.  Basis and provenance are the code's own unless the caller says.
Charge(on, code, quantity, unit, buy, own, refs) ==
  LET def == R!CodeTable[code] IN
  [on |-> on, code |-> code, match |-> "exact", quantity |-> quantity, unit |-> unit,
   sell |-> unit * quantity, buy |-> buy, currency |-> "ZAR",
   basis |-> IF "basis" \in DOMAIN own THEN own.basis ELSE def.basis,
   provenance |-> IF "prov" \in DOMAIN own THEN own.prov ELSE def.prov,
   vatBps |-> IF def.tax THEN 1500 ELSE 0,
   contractRef |-> "contract" \in refs, vendorRef |-> "vendor" \in refs, vendor |-> code,
   invoice |-> 0, disputed |-> FALSE]

Canonical(code, tenant) == R!NormaliseCode(code, Aliases[tenant], Spellings).code

\* Charged by the journey, and never by a quote.
OnOf ==
  [CCL |-> "entry.released", DTY |-> "entry.released", PLF |-> "vessel.departed",
   DEL |-> "container.gated_out"]

CodesOf(card) ==
  {"FRT", "HND", "SVC"} \cup {card.surcharges[i].code : i \in DOMAIN card.surcharges}

\* What the seeded book is (console/store.js): costs and margins are not negative,
\* every request is for something, and no card prices what the journey charges.
ASSUME SeededBook ==
  /\ {Terms, Hours, GoodsValue} \subseteq Nat /\ GoodsRates \subseteq Int
  /\ \A t \in DOMAIN Agents : Agents[t] \in Nat
  /\ \A user \in Seats : "ops" \in user.roles => user.tenant \in DOMAIN Book
  /\ \A lane \in DOMAIN Lanes :
       /\ {"quantity", "cargo", "urgency"} \subseteq DOMAIN Lanes[lane]
       /\ Lanes[lane].quantity \in Nat \ {0}
       /\ Lanes[lane].cargo \in DOMAIN R!CargoTypes
       /\ Lanes[lane].urgency \in DOMAIN R!Urgencies
  /\ \A t \in DOMAIN Book :
       /\ IsFiniteSet(Book[t].cards) /\ IsFiniteSet(Book[t].rules)
       /\ \A c \in Book[t].cards :
            /\ c.id \in Nat /\ c.buy \in Nat /\ c.currency \in DOMAIN R!FxHundredths
            /\ c.surcharges \in Seq([code : STRING, basis : STRING, amount : Nat,
                                    currency : DOMAIN R!FxHundredths])
            /\ \A code \in CodesOf(c) : Canonical(code, t) \notin DOMAIN OnOf
            /\ \A d \in Book[t].cards : c.id = d.id => c = d
       /\ \A r \in Book[t].rules :
            /\ r.bps \in Nat /\ r.floor \in Nat /\ r.created \in Nat
            /\ \A s \in Book[t].rules : r.created = s.created => r = s

QuotedCharge(l, tenant) ==
  Charge("shipment.booked", Canonical(l.code, tenant), l.quantity, R!RoundHalfUp(l.sellZar, l.quantity), l.buyZar,
         [basis |-> l.basis,
          prov |-> IF l.buy > 0 THEN "MARKED_UP" ELSE "FORWARDER_ORIGINATED"],
         {"contract"})

AtBooking(lines, boxes, tenant) ==
  [i \in DOMAIN lines |-> QuotedCharge(lines[i], tenant)]
  \o <<Charge("shipment.booked", "OHC", boxes, 215000, 215000 * boxes, <<>>, {"vendor"}),
       Charge("shipment.booked", "DOC", 1, 85000, R!Unrecorded, <<>>, {})>>

Sells == [i \in DOMAIN charges |-> charges[i].sell]
Vats == [i \in DOMAIN charges |-> R!LineVat(charges[i].sell, charges[i].vatBps)]

AtDeparture ==
  LET freight == SumFunctionOnSet(Sells, {i \in DOMAIN charges : charges[i].code = "FRT"})
      fee == R!Share(freight, Agents[shipment.tenant])
  IN IF shipment.tenant \in DOMAIN Agents /\ fee > 0
       THEN <<Charge("vessel.departed", "PLF", 1, fee, 0, <<>>, {})>> ELSE <<>>

AtRelease(e) ==
  (IF Payable(e) > 0
     THEN <<Charge("entry.released", "DTY", 1, Payable(e), Payable(e), <<>>, {"vendor"})>> ELSE <<>>)
  \o <<Charge("entry.released", "CCL", 1, 195000, 45000, <<>>, {})>>

FreeTimeDays == 5

AtGate(s, now) ==
  LET days == R!Greater(0, R!DaysBetween(s.discharged, now) - FreeTimeDays)
  IN (IF days > 0
        THEN <<Charge("container.gated_out", "DEM", days, 95000, 95000 * days, <<>>, {"vendor"})>>
        ELSE <<>>)
     \o <<Charge("container.gated_out", "DEL", s.boxes, 148000, 112000 * s.boxes, <<>>, {})>>

AccruedNever(on) == FALSE

\* accrueFor, which skips a trigger that has charges.
Accrued(on) == \E i \in DOMAIN charges : charges[i].on = on

AccrueFor(on, s, e, now) ==
  charges' = charges \o
    IF Accrued(on) THEN <<>>
    ELSE CASE on = "vessel.departed" -> AtDeparture
           [] on = "entry.released" -> AtRelease(e)
           [] on = "container.gated_out" -> AtGate(s, now)
           [] OTHER -> <<>>

(***************************************************************************)
(* Pricing and booking.                                                    *)
(***************************************************************************)
EditForm(lane) ==
  /\ ~Booked
  /\ form' = [form EXCEPT !.lane = lane, !.priced = FALSE]
  /\ lane # form.lane
  /\ UNCHANGED <<cargo, shipment, entry, filing, charges, invoices, payments, exceptions,
                 feeds, hours, audited>>

Request ==
  LET lane == Lanes[form.lane]
  IN [f \in DOMAIN lane \cup {"at"} |-> IF f = "at" THEN hours.now ELSE lane[f]]
FormBlocked == R!BlockedCargo(Request.cargo, Request.papers, Request.range)

\* A refused price is shown and stored nowhere.
RaiseQuote(user) ==
  /\ ~Booked /\ ~FormBlocked /\ form.prices < MaxPrices
  /\ user.tenant \in DOMAIN Book
  /\ form' = [form EXCEPT !.prices = @ + 1,
                !.priced = R!Quotable(Book[user.tenant].cards, Request)]
  /\ UNCHANGED <<cargo, shipment, entry, filing, charges, invoices, payments, exceptions,
                 feeds, hours, audited>>

CreateConsignment(user) == cargo' = Append(cargo, user.tenant)

CreateQuote(user) == R!Price(Book[user.tenant].cards, Book[user.tenant].rules, Request)

BookQuote(user, lines) ==
  /\ shipment' = [Unbooked EXCEPT !.tenant = user.tenant, !.lane = form.lane,
                    !.events = {"shipment.booked"}, !.lines = lines, !.boxes = Request.quantity]
  /\ charges' = AtBooking(lines, Request.quantity, user.tenant)

\* The price on the screen is only a permission: the quote is priced again under
\* the tenant of the seat, after the consignment has been recorded.
BookIt(user) ==
  /\ ~Booked /\ form.priced /\ "ops" \in user.roles
  /\ Len(cargo) < MaxPrices
  /\ CreateConsignment(user)
  /\ IF R!Quotable(Book[user.tenant].cards, Request)
       THEN BookQuote(user, CreateQuote(user)) /\ form' = [form EXCEPT !.priced = FALSE]
       ELSE UNCHANGED <<shipment, charges, form>>
  /\ UNCHANGED <<entry, filing, invoices, payments, exceptions, feeds, hours, audited>>

(***************************************************************************)
(* The journey and customs.                                                *)
(***************************************************************************)
MoveEntry(e, type) ==
  IF e = NoEntry THEN e
  ELSE CASE type = "entry.submitted" -> [e EXCEPT !.status = "SUBMITTED"]
         [] type = "entry.released" -> [e EXCEPT !.status = "RELEASED"]
         [] OTHER -> e

Advance(user) ==
  /\ May(user, "ops") /\ shipment.step < Len(Lifecycle)
  /\ LET type == Lifecycle[shipment.step + 1]
         now == hours.now + 14
         moved == [shipment EXCEPT !.step = @ + 1, !.events = @ \cup {type},
                     !.discharged = IF type = "container.discharged" THEN now ELSE @,
                     !.gateOut = IF type = "container.gated_out" THEN now ELSE @,
                     !.emptied = IF type = "pod.confirmed" THEN now + 48 ELSE @]
     IN /\ shipment' = moved
        /\ hours' = [hours EXCEPT !.now = now]
        /\ entry' = MoveEntry(entry, type)
        /\ AccrueFor(type, moved, MoveEntry(entry, type), now)
  /\ UNCHANGED <<form, cargo, filing, invoices, payments, exceptions, feeds, audited>>

\* newEntry is offered once the vessel has arrived.  A match is confirmed at once.
NewEntry(user, rate) ==
  /\ Sees(user) /\ shipment.step >= 4 /\ entry = NoEntry
  /\ entry' = [status |-> "DRAFT", coded |-> rate >= 0, rate |-> R!Greater(rate, 0),
               confirmed |-> rate >= 0, late |-> Accrued("entry.released")]
  /\ shipment' = [shipment EXCEPT !.events = @ \cup {"entry.prepared"}]
  /\ UNCHANGED <<form, cargo, filing, charges, invoices, payments, exceptions, feeds, hours,
                 audited>>

\* A line no code was found for stays without one, confirmed or not.
ConfirmLine(user) ==
  /\ Sees(user) /\ entry # NoEntry /\ ~entry.confirmed
  /\ entry' = [entry EXCEPT !.confirmed = TRUE]
  /\ UNCHANGED <<form, cargo, shipment, filing, charges, invoices, payments, exceptions,
                 feeds, hours, audited>>

\* lodgeFiling: one row by reference, and no change of its state afterwards.
Lodged ==
  IF filing # "none" THEN filing
  ELSE IF "sars_edi" \in feeds.live THEN "SUBMITTED" ELSE "QUEUED"

\* The button needs a code on every line.
SubmitEntry(user) ==
  /\ Sees(user) /\ entry.status = "DRAFT" /\ entry.confirmed /\ entry.coded
  /\ entry' = [entry EXCEPT !.status = "SUBMITTED"]
  /\ shipment' = [shipment EXCEPT !.events = @ \cup {"entry.submitted"}]
  /\ filing' = Lodged
  /\ UNCHANGED <<form, cargo, charges, invoices, payments, exceptions, feeds, hours, audited>>

ReleaseEntry(user) ==
  /\ Sees(user) /\ entry.status = "SUBMITTED"
  /\ entry' = [entry EXCEPT !.status = "RELEASED"]
  /\ shipment' = [shipment EXCEPT !.events = @ \cup {"entry.released"}]
  /\ AccrueFor("entry.released", shipment, entry', hours.now)
  /\ UNCHANGED <<form, cargo, filing, invoices, payments, exceptions, feeds, hours, audited>>

BuildSubmission(user) ==
  /\ Sees(user) /\ entry # NoEntry /\ filing = "none"
  /\ filing' = Lodged
  /\ UNCHANGED <<form, cargo, shipment, entry, charges, invoices, payments, exceptions, feeds,
                 hours, audited>>

(***************************************************************************)
(* Invoices and payments.                                                  *)
(***************************************************************************)
\* Invoice 0 stands for none.
Numbered == [i \in DOMAIN charges |-> [id |-> i] @@ charges[i]]
LinesOf(n) == {i \in DOMAIN charges : charges[i].invoice = n}
InvoiceLines(n) == SelectSeq(Numbered, LAMBDA l : l.invoice = n)

\* issueInvoice: every charge is in rand, so there is one invoice.
IssueInvoice(user) ==
  /\ May(user, "finance") /\ LinesOf(0) # {} /\ Len(invoices) < MaxInvoices
  /\ LET subtotal == SumFunctionOnSet(Sells, LinesOf(0))
         vat == SumFunctionOnSet(Vats, LinesOf(0))
     IN invoices' = Append(invoices,
          [status |-> "ISSUED", subtotal |-> subtotal, vat |-> vat, total |-> subtotal + vat,
           due |-> hours.now + Terms])
  /\ charges' = [i \in DOMAIN charges |->
       IF charges[i].invoice = 0 THEN [charges[i] EXCEPT !.invoice = Len(invoices) + 1] ELSE charges[i]]
  /\ UNCHANGED <<form, cargo, shipment, entry, filing, payments, exceptions, feeds, hours,
                 audited>>

PaidOn(n) ==
  LET credited == {p \in payments : p.invoice = n}
  IN SumFunctionOnSet([p \in credited |-> p.amount], credited)

Half(n) == (invoices[n].total + 1) \div 2

\* recordPayment.  A reference that was credited before changes nothing.
Pay(user, n, ref) ==
  /\ May(user, "finance")
  /\ Half(n) > 0
  /\ ~\E p \in payments : p.invoice = n /\ p.ref = ref
  /\ payments' = payments \cup {[invoice |-> n, ref |-> ref, amount |-> Half(n)]}
  /\ invoices' = [invoices EXCEPT ![n].status =
       IF PaidOn(n)' >= invoices[n].total THEN "PAID"
       ELSE IF invoices[n].due < hours.now THEN "OVERDUE" ELSE "PART_PAID"]
  /\ UNCHANGED <<form, cargo, shipment, entry, filing, charges, exceptions, feeds, hours, audited>>

\* The ticker, and markOverdue at each of its ticks.
Tick ==
  /\ hours.ticks < MaxTicks
  /\ hours' = [now |-> hours.now + Hours, ticks |-> hours.ticks + 1]
  /\ invoices' = [n \in DOMAIN invoices |->
       IF invoices[n].status \in {"ISSUED", "PART_PAID"} /\ invoices[n].due < hours.now + Hours
         THEN [invoices[n] EXCEPT !.status = "OVERDUE"] ELSE invoices[n]]
  /\ UNCHANGED <<form, cargo, shipment, entry, filing, charges, payments, exceptions, feeds,
                 audited>>

(***************************************************************************)
(* The audit.                                                              *)
(***************************************************************************)
ToggleFeed(feed) ==
  /\ feeds.turned < MaxToggles
  /\ feeds' = [turned |-> feeds.turned + 1,
               live |-> IF feed \in feeds.live THEN feeds.live \ {feed} ELSE feeds.live \cup {feed}]
  /\ UNCHANGED <<form, cargo, shipment, entry, filing, charges, invoices, payments, exceptions,
                 hours, audited>>

\* contractFor: the lines of the accepted quote, the last of a code standing, then
\* the agency tariff.
Contract ==
  LET quoted(code) == {i \in DOMAIN shipment.lines :
                         Canonical(shipment.lines[i].code, shipment.tenant) = code}
      codes == {code \in DOMAIN R!CodeTable : quoted(code) # {}}
      Last(code) == shipment.lines[R!Max(quoted(code))]
  IN [code \in codes |->
        [unit |-> R!RoundHalfUp(Last(code).sellZar, Last(code).quantity), currency |-> "ZAR"]]
     @@ [code \in DOMAIN Tariff[shipment.tenant] |->
           [unit |-> Tariff[shipment.tenant][code], currency |-> "ZAR"]]

AuditInput(n) ==
  [lines |-> InvoiceLines(n), contract |-> Contract, currency |-> "ZAR",
   registered |-> shipment.tenant \in Registered,
   subtotal |-> invoices[n].subtotal, vat |-> invoices[n].vat, total |-> invoices[n].total,
   containers |-> shipment.boxes, documents |-> 1, events |-> shipment.events,
   discharged |-> shipment.discharged, gateOut |-> shipment.gateOut, emptied |-> shipment.emptied,
   freeTime |-> IF "terminal" \in feeds.live THEN FreeTimeDays ELSE R!Unrecorded,
   fuel |-> IF "fuel_index" \in feeds.live
              THEN <<[expected |-> Benchmark, currency |-> "ZAR"]>> ELSE <<>>]

\* runAudit: a finding seen again keeps its status, one that is open and is not
\* seen again is resolved.
RunAudit(user, n) ==
  /\ May(user, "finance") /\ audited.count < MaxAudits
  /\ LET found == R!Audit(AuditInput(n))
         Key(f) == <<n, f.code, f.charge>>
         keys == {Key(f) : f \in found}
         Status(key) == IF key \in DOMAIN exceptions THEN exceptions[key].status ELSE "OPEN"
     IN /\ exceptions' = [key \in DOMAIN exceptions \cup keys |->
             CASE key \in keys ->
                    [variance |-> (CHOOSE f \in found : Key(f) = key).variance,
                     status |-> Status(key)]
               [] key \notin keys /\ key[1] = n /\ exceptions[key].status = "OPEN" ->
                    [exceptions[key] EXCEPT !.status = "RESOLVED"]
               [] OTHER -> exceptions[key]]
        /\ audited' = [audited EXCEPT !.found = [m \in DOMAIN @ \cup {n} |-> IF m = n THEN keys ELSE @[m]],
                     !.count = @ + 1]
  /\ UNCHANGED <<form, cargo, shipment, entry, filing, charges, invoices, payments, feeds, hours>>

\* resolveException, from a button that an open finding has.
DecideFinding(user, key, status) ==
  /\ Sees(user) /\ exceptions[key].status = "OPEN" /\ audited.decided < MaxDecisions
  /\ exceptions' = [exceptions EXCEPT ![key].status = status]
  /\ charges' = [i \in DOMAIN charges |->
       IF i = key[3] THEN [charges[i] EXCEPT !.disputed = (status = "DISPUTED")] ELSE charges[i]]
  /\ audited' = [audited EXCEPT !.decided = @ + 1]
  /\ UNCHANGED <<form, cargo, shipment, entry, filing, invoices, payments, feeds, hours>>

ConsoleNext ==
  \/ \E lane \in DOMAIN Lanes : EditForm(lane)
  \/ \E user \in Seats : RaiseQuote(user) \/ BookIt(user) \/ Advance(user)
  \/ \E user \in Seats, rate \in GoodsRates : NewEntry(user, rate)
  \/ \E user \in Seats : ConfirmLine(user) \/ SubmitEntry(user) \/ ReleaseEntry(user)
  \/ \E user \in Seats : BuildSubmission(user) \/ IssueInvoice(user)
  \/ \E user \in Seats, n \in DOMAIN invoices, ref \in {"r1", "r2"} : Pay(user, n, ref)
  \/ Tick
  \/ \E feed \in {"fuel_index", "terminal", "sars_edi"} : ToggleFeed(feed)
  \/ \E user \in Seats, n \in DOMAIN invoices : RunAudit(user, n)
  \/ \E user \in Seats, key \in DOMAIN exceptions, status \in {"DISPUTED", "ACCEPTED"} :
       DecideFinding(user, key, status)

ConsoleSpec == ConsoleInit /\ [][ConsoleNext]_consoleVars

-----------------------------------------------------------------------------
AccruedFor(code) == {i \in DOMAIN charges : charges[i].code = code}

\* A clearance is recorded by the button, by the journey, or by both in either
\* order, and is charged once, with what the entry costs.  An entry made after
\* the journey had recorded it is released without its duty.
ClearedOnce ==
  /\ \A code \in DOMAIN OnOf : Cardinality(AccruedFor(code)) <= 1
  /\ \A i \in AccruedFor("DTY") : charges[i].sell = Payable(entry)
  /\ entry.status = "RELEASED" /\ Payable(entry) > 0 => entry.late \/ AccruedFor("DTY") # {}

\* An invoice is what its lines come to, and every charge is on one at most.
InvoicesFoot ==
  \A n \in DOMAIN invoices :
    /\ LinesOf(n) # {}
    /\ invoices[n].total =
         SumFunctionOnSet([i \in DOMAIN charges |-> Sells[i] + Vats[i]], LinesOf(n))

\* What an invoice is called is what has been paid on it and when it was due.
SettledByTotal ==
  \A n \in DOMAIN invoices :
    /\ (invoices[n].status = "PAID") = (PaidOn(n) >= invoices[n].total)
    /\ invoices[n].status = "ISSUED" => PaidOn(n) = 0
    /\ invoices[n].status = "OVERDUE" => invoices[n].due < hours.now

\* What is open is what the last audit found, all of it is kept, and a charge is
\* held back for a finding somebody disputed.
FindingsKept ==
  /\ \A n \in DOMAIN audited.found :
       /\ audited.found[n] \subseteq DOMAIN exceptions
       /\ \A key \in DOMAIN exceptions :
            key[1] = n /\ exceptions[key].status = "OPEN" => key \in audited.found[n]
  /\ \A i \in DOMAIN charges : charges[i].disputed =>
       \E key \in DOMAIN exceptions : key[3] = i /\ exceptions[key].status = "DISPUTED"

\* The console's books, whatever seats the work is done from and in whatever
\* order the buttons, the journey and the clock come.
ConsoleBooks == ClearedOnce /\ InvoicesFoot /\ SettledByTotal /\ FindingsKept
=============================================================================
