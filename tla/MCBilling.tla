------------------------------ MODULE MCBilling ------------------------------
(***************************************************************************)
(* From the quote to the audited invoice, each stage in behaviours of its  *)
(* own: keeping rules and answering requests, correcting a consignment,    *)
(* issuing invoices, and auditing an invoice of quotes the engine priced.  *)
(***************************************************************************)
EXTENDS Invoicing, Quoting, InvoiceAudit

CONSTANTS
  carriage, terminal, other,   \* charges
  third                        \* the delivery of another message

VARIABLE part

mcVars == <<part, vars, quotingVars, auditVars>>

\* Two currencies on one shipment, and one charge on another.
MCShipmentOf == carriage :> "s1" @@ terminal :> "s1" @@ other :> "s2"
MCCurrencyOf == carriage :> "USD" @@ terminal :> "ZAR" @@ other :> "ZAR"

MCRule(n, origin) ==
  [customer |-> Null, origin |-> origin, destination |-> Null, mode |-> Null,
   bps |-> 1500, floor |-> 2500, created |-> n]

MCSurcharge(code, basis, amount, currency) ==
  [code |-> code, basis |-> basis, amount |-> amount, currency |-> currency]

\* A carrier's card priced in two currencies.
MCCard ==
  [id |-> 1, origin |-> "CNSHA", destination |-> "ZADUR", mode |-> "OCEAN",
   container |-> Null, buy |-> 20000, currency |-> "USD", transit |-> 2,
   from |-> 0, to |-> 9,
   surcharges |-> <<MCSurcharge("BUNKER", "PER_CONTAINER", 3000, "USD"),
                    MCSurcharge("THC", "PER_CONTAINER", 6000, "ZAR"),
                    MCSurcharge("DEM", "PER_SHIPMENT", 1001, "ZAR")>>]

\* One with two spellings of one code, and one spelling only the company knows.
MCOtherCard ==
  [MCCard EXCEPT !.id = 2, !.buy = 16001,
     !.surcharges = <<MCSurcharge("BAF", "PER_SHIPMENT", 1003, "USD"),
                      MCSurcharge("BUNKER", "PERCENT_OF_FREIGHT", 500, "USD"),
                      MCSurcharge("ZZZ", "PER_BL", 700, "USD")>>]

\* The card a request meets does not state its transit.
MCCards == {[MCCard EXCEPT !.transit = Unknown]}

MCRequest ==
  [customer |-> "acme", origin |-> "CNSHA", destination |-> "ZADUR", mode |-> "OCEAN",
   container |-> "40HC", quantity |-> 1, at |-> 1, cargo |-> "GENERAL",
   urgency |-> "EXPRESS"]

MCCorrections ==
  {[cargo |-> "HAZARDOUS"], [papers |-> {"un", "class", "group"}], [papers |-> {}],
   [cargo |-> "REEFER", range |-> <<-20, 40>>], [range |-> <<>>], [cargo |-> "GENERAL"]}

MCMessageOf == [d \in Deliveries |-> IF d = third THEN "m2" ELSE "m1"]

MCLinesFor(card, quantity, kind) ==
  BuildQuote([MCRequest EXCEPT !.quantity = quantity, !.cargo = kind], {card}, {MCRule(1, Null)})

MCSale(card, quantity, kind, currency) ==
  [lines |-> MCLinesFor(card, quantity, kind), currency |-> currency, boxes |-> quantity]

\* What stands for a sale where no invoice is audited.
MCNoSale == [lines |-> <<>>, currency |-> "USD", boxes |-> 0]

MCSales ==
  {MCNoSale, MCSale(MCCard, 1, "HAZARDOUS", "USD"), MCSale(MCCard, 1, "GENERAL", "ZAR"),
   MCSale(MCCard, 3, "GENERAL", "ZAR"), MCSale(MCOtherCard, 1, "GENERAL", "USD"),
   MCSale(MCOtherCard, 2, "REEFER", "USD")}

MCSpellings == "BUNKER" :> "BAF"
MCOwnSpellings == "ZZZ" :> "TOL"

MCBenchmarks == {<<>>, <<[expected |-> 3450, currency |-> "USD"]>>,
                 <<[expected |-> 2000, currency |-> "USD"]>>}

MCBillingSymmetry ==
  Permutations(Clients) \cup Permutations(Staff) \cup Permutations(Auditors)
  \cup Permutations(Deliveries \ {third})

MCInit ==
  /\ part \in {"rules", "quoting", "cargo", "invoicing", "audit"}
  /\ Init /\ QuotingInit /\ AuditInit
  /\ (part = "audit") = (accepted # MCNoSale)

\* The charges of these sales are such as a document is made of, and their documents
\* foot, whatever part of them is held back.
ASSUME DocumentsFoot ==
  \A sale \in MCSales \ {MCNoSale} :
    LET charges == InvoiceCharges(sale)
    IN /\ Billable(charges)
       /\ \A held \in SUBSET {charges[i].id : i \in DOMAIN charges} : Foots(charges, held)

\* A quote is filed under a currency in which no other total is larger.
ASSUME HeadlineIsLargest ==
  \A sale \in MCSales \ {MCNoSale} : \A cur \in Currencies(sale.lines) :
    SellIn(sale.lines, cur) <= SellIn(sale.lines, Headline(sale.lines))

MCItem(n, side) == [length |-> side, width |-> side, height |-> side + 5, pieces |-> n, grams |-> 1000 * n]

\* Freight is never charged on less than its weight, and counting the pieces of
\* a line on two lines changes a total by no more than the rounding of a line.
ASSUME SplittingIsFair ==
  \A side \in 1 .. 12, n \in 2 .. 5, mode \in {"AIR", "OCEAN", "ROAD"} :
    LET whole == ConsignmentTotals(<<MCItem(n, side)>>, mode)
        split == ConsignmentTotals(<<MCItem(1, side), MCItem(n - 1, side)>>, mode)
    IN /\ whole.chargeable >= whole.gross
       /\ split.pieces = whole.pieces /\ split.gross = whole.gross
       /\ Abs(split.volume - whole.volume) <= 1

\* A packet claims what is disputed and no more: credits are not netted off.
ASSUME ClaimsAreOvercharges ==
  ClaimedCents({Finding("A", 1, "WARNING", 500), Finding("B", 2, "CRITICAL", -300),
                Finding("C", 3, "INFO", 900)}) = 500

-----------------------------------------------------------------------------
(* The seeded console ports these rules; so far it agrees and so far it does *)
(* not.                                                                     *)
Ported == INSTANCE ConsoleRules

MCLine(chargeCode, unit, extra, own) ==
  [id |-> 1, code |-> chargeCode, quantity |-> 2, unit |-> unit, sell |-> 2 * unit + extra, buy |-> own.buy,
   currency |-> own.currency, basis |-> own.basis, category |-> ChargeDef[chargeCode].category,
   provenance |-> own.provenance, vatBps |-> own.vatBps, match |-> own.match,
   contractRef |-> own.referred, vendorRef |-> FALSE, vendor |-> "v"]

MCOwn ==
  [buy : {NoCost, 0}, currency : {"USD", "ZAR"}, basis : {"PER_CONTAINER", "PER_DOCUMENT"},
   provenance : {"PASS_THROUGH", "MARKED_UP"}, vatBps : {0, 1500}, match : {"exact", "fallback"},
   referred : {TRUE}] \cup
  [buy : {NoCost}, currency : {"ZAR"}, basis : {"PER_SHIPMENT"}, match : {"exact"}, vatBps : {0},
   provenance : {"PASS_THROUGH", "FORWARDER_ORIGINATED"}, referred : BOOLEAN]

\* times are in days, and in hours for the console.
MCInvoice(lines, contract, events, times) ==
  [lines |-> lines, contract |-> contract, currency |-> "ZAR", registered |-> TRUE, documents |-> 1,
   containers |-> 1, events |-> events, freeTime |-> 2, fuel |-> <<[expected |-> 90, currency |-> "ZAR"]>>,
   discharged |-> times[1], gateOut |-> times[2], emptied |-> times[3],
   subtotal |-> lines[1].sell, vat |-> 10, total |-> lines[1].sell + 11]

InHours(day) == IF day = NoDay THEN NoDay ELSE 24 * day

SameFindings(in) ==
  AuditInvoice(in) = Ported!Audit([in EXCEPT !.discharged = InHours(@), !.gateOut = InHours(@),
                                             !.emptied = InHours(@)])

MCContracts == {<<>>, [DEL |-> [unit |-> 100, currency |-> "ZAR"], BAF |-> [unit |-> 90, currency |-> "ZAR"]]}

MCTimed(n) == [MCLine("DEM", 100, 0, [buy |-> NoCost, currency |-> "ZAR", basis |-> "PER_DAY",
                 provenance |-> "PASS_THROUGH", vatBps |-> 1500, match |-> "exact", referred |-> TRUE])
               EXCEPT !.quantity = n]

\* One invoice is matched alike by both, whatever its line, its contract and its
\* shipment's days.
ASSUME PortedAudit ==
  /\ \A chargeCode \in {"DEL", "BAF", "DTY"}, unit \in {0, 95, 3000}, extra \in {0, 7}, own \in MCOwn,
        contract \in MCContracts, events \in {{}, {"shipment.booked"}} :
       SameFindings(MCInvoice(<<MCLine(chargeCode, unit, extra, own)>>, contract, events, <<0, 1, 2>>))
  /\ \A n, m \in 1 .. 4, days \in {NoDay, 0} \X {NoDay, 1, 3, 6} \X {NoDay, 4, 7} :
       SameFindings(MCInvoice(<<MCTimed(n), [MCTimed(m) EXCEPT !.code = "DET", !.id = 2]>>, <<>>,
                              {"shipment.booked"}, days))
  /\ \A n, m \in 1 .. 2 :
       SameFindings(MCInvoice(<<MCTimed(n), [MCTimed(m) EXCEPT !.id = 2]>>, <<>>, {}, <<0, 3, 3>>))

\* Weights, VAT, duty and the taxonomy are the platform's, but for two codes.
ASSUME PortedFigures ==
  /\ \A side \in 1 .. 12, n \in 1 .. 3, mode \in {"AIR", "OCEAN", "ROAD", "RAIL"} :
       Ported!ComputeTotals(<<MCItem(n, side), MCItem(2, 3)>>, mode)
         = ConsignmentTotals(<<MCItem(n, side), MCItem(2, 3)>>, mode)
  /\ \A value \in 1 .. 60, rate \in {0, 1000, 4500}, sacu \in BOOLEAN :
       LET line == [value |-> value, rateBps |-> rate, sacu |-> sacu]
           taxed == ComputeDutyLine(line)
       IN /\ Ported!DutyForLine(line) = taxed
          /\ Ported!EntryPayable(<<line>>)
               = ComputeEntryTotals(<<taxed>>).duties + ComputeEntryTotals(<<taxed>>).vat
          /\ Ported!LineVat(-value, rate) = LineVatCents(-value, rate)
  /\ DOMAIN ChargeDef \ DOMAIN Ported!CodeTable = {"VAT", "WAIT"}
  /\ \A chargeCode \in DOMAIN Ported!CodeTable :
       LET here == Ported!CodeTable[chargeCode]
           there == ChargeDef[chargeCode]
       IN /\ <<here.kind, here.basis, here.prov, here.tax>>
               = <<there.kind, there.basis, there.provenance, there.taxable>>
          /\ \A i \in DOMAIN CategoryOrder :
               (here.cat = Ported!CatOrder[i]) = (there.category = CategoryOrder[i])

\* A document's sections and totals are the platform's, credit notes included.
ASSUME PortedDocument ==
  \A sale \in MCSales \ {MCNoSale}, type \in {"FREIGHT_INVOICE", "CREDIT_NOTE"}, held \in {{}, {1}} :
    LET charges == InvoiceCharges(sale)
        lines == DocumentLines(type, charges)
        here == Ported!BuildDocument(type, charges, held)
        there == Totals(lines, held, 0)
        parts == Sections(lines)
    IN /\ <<here.subtotal, here.vat, here.total, here.disputed>>
            = <<there.subtotal, there.vat, there.total, there.disputed>>
       /\ here.sections = [i \in DOMAIN parts |-> <<parts[i].subtotal, parts[i].vat>>]

\* Where the port is not the platform: a range upside down, a contracted price of
\* nothing, and the price itself, whose floor is every line's and whose rule is
\* the one that names most.
ASSUME NotPorted ==
  /\ Blocked("PERISHABLE", {}, <<40, -20>>) /\ ~Ported!BlockedCargo("PERISHABLE", {}, <<40, -20>>)
  /\ \E own \in MCOwn :
       ~SameFindings(MCInvoice(<<MCLine("DEL", 0, 0, own)>>, [DEL |-> [unit |-> 0, currency |-> "ZAR"]],
                               {"shipment.booked"}, <<0, 1, 2>>))
  /\ LET card == [MCCard EXCEPT !.container = "40HC", !.surcharges =
                    <<MCSurcharge("THC", "PER_CONTAINER", 500, "ZAR")>>]
         there == BuildQuote(MCRequest, {card}, {MCRule(1, Null)})
         here == Ported!Price({card}, {MCRule(1, Null)}, MCRequest)
     IN here[2].sell = 500 + 2500 /\ there[Len(there)].sell = 575
  /\ LET lane == [MCRule(1, "CNSHA") EXCEPT !.destination = "ZADUR"]
         customer == [MCRule(2, Null) EXCEPT !.customer = "acme", !.bps = 0]
     IN /\ ResolveMarginRule({lane, customer}, MCRequest) = customer
        /\ Ported!ResolveRule({lane, customer}, MCRequest) = lane

-----------------------------------------------------------------------------
(* Reading the book they fill.                                              *)
Desk == INSTANCE Portal WITH PerMs <- 2, Nothing <- Null, FeeRows <- 2, LaneRows <- 1, HealthyLag <- 60

MCShipment(n, at) ==
  [id |-> n, tenant |-> "operator", customer |-> n, at |-> at, status |-> "BOOKED",
   lane |-> "lane", consignment |-> Null]

MCBookOf(times) == {MCShipment(n, times[n]) : n \in DOMAIN times}

\* Whatever is booked meanwhile, in its turn or late, no page serves a shipment
\* again, and the last page has been reached with every shipment that was there
\* at the start served, but for those created in the millisecond of another:
\* a cursor does not say which of them its page ended with.
ASSUME PagesServeOnce ==
  /\ \A times \in [1 .. 3 -> 0 .. 3], late \in 0 .. 4, turn \in 1 .. 3, limit \in 1 .. 2 :
       LET rows == MCBookOf(times)
           arrived == [k \in 1 .. 4 |-> IF k = turn THEN {MCShipment(4, late)} ELSE {}]
           read == Desk!Read(rows, arrived, limit, 4)
       IN /\ read.twice = {} /\ read.done
          /\ \A lost \in rows \ read.served :
               \E s \in read.served : s.at \div 2 = lost.at \div 2 /\ s.at % 2 # 0
  /\ LET rows == MCBookOf(<<1, 1, 1>>)
     IN Desk!Read(rows, [k \in 1 .. 4 |-> {}], 1, 4).served # rows

MCParties ==
  {[id |-> 1, tenant |-> "operator", customer |-> Null], [id |-> 2, tenant |-> "partner", customer |-> Null]}
MCTypes == [operator |-> "OPERATOR", partner |-> "PARTNER_AGENT", acme |-> "CUSTOMER", zeta |-> "CUSTOMER"]
MCAsked == {"operator", "partner"} \X {1, 2} \X {"acme", "zeta", "partner", "nobody", Null}
MCLog == {[shipment |-> 1, occurred |-> n, tenant |-> "operator",
           type |-> IF n = 2 THEN "charge.accrued" ELSE "vessel.position_reported"] : n \in 1 .. 4}

\* However companies link and unlink their parties, what a tenant is shown was
\* booked for a party its own company last linked to it, and only a customer is
\* ever shown anything.
ASSUME SharedByItsCompany ==
  \A first, second \in MCAsked, tenant \in DOMAIN MCTypes :
    LET once == Desk!Link(MCParties, MCTypes, first[1], first[2], first[3])
        parties == Desk!Link(once, MCTypes, second[1], second[2], second[3])
        Grants(ask, n) == \E p \in MCParties : p.id = n /\ ask = <<p.tenant, n, tenant>>
        Heeded(ask, n) == \E p \in MCParties : p.id = n /\ ask[1] = p.tenant /\ ask[2] = n
                            /\ ask[3] \in {"acme", "zeta", Null}
        book == {[MCShipment(n, 0) EXCEPT !.tenant = p.tenant] :
                   <<n, p>> \in {q \in {1, 2} \X MCParties : q[1] = q[2].id}}
        shown == Desk!PortalShipments(book, parties, tenant, Null, Desk!NoCursor, 2).rows
    IN /\ shown # {} => Desk!Admitted(MCTypes, tenant)
       /\ Desk!Admitted(MCTypes, tenant) => \A s \in book :
            s \in shown <=> Grants(second, s.id) \/ (Grants(first, s.id) /\ ~Heeded(second, s.id))
       /\ \A s \in book :
            /\ (Desk!PortalTimeline(book, parties, MCLog, tenant, s.id, 9) # {}) = (s \in shown /\ s.id = 1)
            /\ (Desk!PortalShipment(book, parties, {}, tenant, s.id) # {}) = (s \in shown)
       /\ {i.customer : i \in Desk!PortalInvoices({[customer |-> 1], [customer |-> 2]}, parties, tenant)}
            = {s.customer : s \in shown}

\* The customer's timeline is the first events of the journey: past as many, the
\* latest of it is no longer there, and money counts towards them unseen.
ASSUME TimelineIsItsStart ==
  LET parties == {[id |-> 1, tenant |-> "operator", customer |-> "acme"]}
  IN {e.occurred : e \in Desk!PortalTimeline({MCShipment(1, 0)}, parties, MCLog, "acme", 1, 3)} = {1, 3}

-----------------------------------------------------------------------------
(* The tables these stages are kept in.                                     *)
Base == INSTANCE Schema

\* Every insert that expects a collision names columns some index is unique on,
\* but one: a filing's index is partial and its insert says nothing of that, so
\* no filing is ever stored.
ASSUME CollisionsIndexed ==
  /\ \A c \in Base!Collisions : Base!Inferred(c)
  /\ ~Base!Inferred(Base!FilingCollision)

MCRows(columns) == [columns -> {Null, "a", "b"}]

\* No two findings of one rule on one line, or of one rule on the invoice, are
\* kept side by side; nor a payment twice, nor a spelling under two vendors, nor
\* a message of two companies.
ASSUME OneRowEach ==
  /\ \A row, second \in {r \in MCRows({"invoice_id", "code", "charge_id"}) :
                          r["invoice_id"] = "a" /\ r["code"] # Null} :
       Base!Clash("invoice_exceptions", row, second) = (row = second)
  /\ \A row, second \in {r \in MCRows({"invoice_id", "payment_ref"}) :
                          Null \notin {r["invoice_id"], r["payment_ref"]}} :
       Base!Clash("payments", row, second) = (row = second)
  /\ \A row, second \in {r \in MCRows({"tenant_id", "alias", "vendor_party_id"}) :
                          r["tenant_id"] = "a" /\ r["alias"] = "a"} :
       Base!Clash("charge_code_aliases", row, second)
  /\ \A row, second \in {r \in MCRows({"event_id", "tenant_id", "type", "source_ref"}) :
                          Null \notin {r["event_id"], r["tenant_id"], r["type"]}} :
       row["type"] = second["type"] /\ row["source_ref"] = second["source_ref"]
         /\ row["source_ref"] # Null => Base!Clash("events", row, second)

\* No row forbids a delete the code performs.
ASSUME DeletesUnhindered == \A table \in Base!Deleted : Base!Erasable(table)

\* Every row leads to the company it belongs to through references it must have,
\* but for the log and its ledger, which name one without a reference, and for
\* what belongs to the deployment.  All that name their company, goods apart, also
\* lead to one in another way, and nothing but the code keeps the two the same.
ASSUME EveryRowHasACompany ==
  LET anchored == Base!Anchored[Cardinality(DOMAIN Base!Db)]
  IN /\ DOMAIN Base!Db \ anchored = {"consumer_offsets", "events", "fuel_index_quotes", "ledger_events"}
     /\ anchored = Base!Anchored[2]
     /\ {t \in DOMAIN Base!Db : Base!Tenant \in Base!Db[t].refs} \ Base!Crossings = {"consignments"}

\* The words of these models are the words the columns take.
ASSUME BillingWords ==
  /\ {ChargeDef[c].category : c \in DOMAIN ChargeDef} \subseteq Base!ChargeCategory
  /\ {ChargeDef[c].kind : c \in DOMAIN ChargeDef} = Base!ChargeKind
  /\ {ChargeDef[c].basis : c \in DOMAIN ChargeDef} \subseteq Base!ChargeBasis
  /\ {ChargeDef[c].provenance : c \in DOMAIN ChargeDef} = Base!ChargeProvenance
  /\ \A sale \in MCSales \ {MCNoSale} : \A i \in DOMAIN InvoiceCharges(sale) :
       InvoiceCharges(sale)[i].basis \in Base!ChargeBasis

-----------------------------------------------------------------------------
(* What is added up out of these tables.                                    *)

MCCharge(id, tenant, kind, currency) ==
  [id |-> id, tenant |-> tenant, kind |-> kind, currency |-> currency, sell |-> 10 * id, at |-> 9 - id]

MCCompanies ==
  {[id |-> "operator", type |-> "OPERATOR", rate |-> 0], [id |-> "acme", type |-> "CUSTOMER", rate |-> 0]}

\* The operator's page and the partner's own give the same revenue as long as the
\* partner's page reads every fee, and only so long; the network's revenue is that
\* of the partners and of the operator's own fees, which are fees to its customers.
ASSUME FeesAgree ==
  \A tenant \in [1 .. 3 -> {"operator", "zeta"}], kind \in [1 .. 3 -> {"FEE", "FREIGHT"}],
     currency \in [1 .. 3 -> {"USD", "ZAR"}] :
    LET charges == {MCCharge(id, tenant[id], kind[id], currency[id]) : id \in 1 .. 3}
        companies == Desk!CreatePartner(MCCompanies, "zeta", 250)
        revenue == (CHOOSE p \in Desk!Partners(companies, {}, charges) : TRUE).revenue
        page == Desk!PlatformFees(charges, "zeta").totals
        others == Desk!ByCurrency(Desk!Fees(charges, {"operator"}))
        network == Desk!Network(companies, {}, charges).revenue
        In(sums, c) == IF c \in DOMAIN sums THEN sums[c] ELSE 0
    IN /\ (page = revenue) = (Cardinality(Desk!Fees(charges, {"zeta"})) <= 2)
       /\ \A c \in {"USD", "ZAR"} : In(network, c) = In(revenue, c) + In(others, c)

\* The platform's fee is one of the fees those pages add up.
ASSUME FeesAreNotAllThePlatforms ==
  {"PLF", "CCL", "DOC"} \subseteq {c \in DOMAIN ChargeDef : ChargeDef[c].kind = "FEE"}

\* A consumer that never handled an event is healthy, and one that handled them all
\* is unhealthy once the log has been quiet.
ASSUME HealthIsAge ==
  LET consumers == Desk!KnownConsumers
      caughtUp == [c \in consumers \ {"ledger-sink"} |-> 0]
      Unhealthy(tenant, type, now) == Desk!Monitor(tenant, type, {}, {}, {}, caughtUp, now).unhealthy
  IN /\ Unhealthy("operator", "OPERATOR", 60) = consumers \ {"ledger-sink"}
     /\ Unhealthy("operator", "OPERATOR", 59) = {} /\ Unhealthy("zeta", "PARTNER_AGENT", 60) = {}

-----------------------------------------------------------------------------
\* Two rules are enough for a request to meet a lane without a price.
MCFewRules == created <= 2

MCNext ==
  \/ part = "invoicing" /\ Next /\ UNCHANGED <<part, quotingVars, auditVars>>
  \/ part = "rules" /\ RuleNext /\ UNCHANGED <<part, vars, auditVars>>
  \/ part = "quoting" /\ (RuleNext \/ RfqNext) /\ MCFewRules'
       /\ UNCHANGED <<part, vars, auditVars>>
  \/ part = "cargo" /\ CargoNext /\ UNCHANGED <<part, vars, auditVars>>
  \/ part = "audit" /\ AuditNext /\ UNCHANGED <<part, vars, quotingVars>>

MCSpec == MCInit /\ [][MCNext]_mcVars

\* The invoice of one card's quote for three containers, without two lines of a code.
MCThreeContainers ==
  MCInit /\ accepted = MCSale(MCCard, 3, "GENERAL", "ZAR") /\ [][MCNext]_mcVars
=============================================================================
