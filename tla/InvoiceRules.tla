---------------------------- MODULE InvoiceRules -----------------------------
(***************************************************************************)
(* The four-way match of an invoice (billing/invoice-audit.ts), one        *)
(* operator per rule, each a set of findings that is empty when the rule   *)
(* is satisfied.                                                           *)
(*                                                                         *)
(* The input is a record: the invoice's currency and stated totals,        *)
(* whether its issuer is registered for VAT, its lines, the contract (a    *)
(* function from a code to its price), the fuel benchmark (a sequence,     *)
(* empty without one), and the shipment's facts, days counted from its     *)
(* booking and NoDay when unknown.  Every writer of charges states a unit  *)
(* price, so the rules' branch for a line without one is left out; a       *)
(* variance that cannot be quantified counts as 0, as it does wherever the *)
(* code adds or compares variances.  Messages and evidence are left out.   *)
(***************************************************************************)
EXTENDS Cents, ChargeCodes, FiniteSets

Tolerance == 500
Materiality == 5000
NoDay == -1
NoCost == -1
Document == 0   \* in the place of a charge: the finding is the invoice's

Finding(code, charge, severity, variance) ==
  [code |-> code, charge |-> charge, severity |-> severity, variance |-> variance]

\* The nth of a set of places, counted from the first.
Nth(places, n) == CHOOSE i \in places : Cardinality({j \in places : j <= i}) = n

Only(condition, finding) == IF condition THEN {finding} ELSE {}

Material(cents) == Abs(cents) >= Materiality

BpsDrift(actual, expected) ==
  IF expected # 0 THEN RoundHalfUp((actual - expected) * 10000, Abs(expected))
  ELSE IF actual = 0 THEN 0
  ELSE 10000

\* Part days count as whole ones; the model's days are whole.
DaysBetween(from, to) == Greater(0, to - from)

(***************************************************************************)
(* Each line by itself.                                                    *)
(***************************************************************************)
Unmapped(line) ==
  Only(line.match = "fallback",
       Finding("UNMAPPED_CHARGE_CODE", line.id, IF Material(line.sell) THEN "WARN" ELSE "INFO", 0))

ForeignCurrency(line, in) ==
  Only(line.currency # in.currency, Finding("CURRENCY_MISMATCH", line.id, "CRITICAL", 0))

Arithmetic(line) ==
  Only(line.unit * line.quantity # line.sell,
       Finding("LINE_ARITHMETIC", line.id, "WARN", line.sell - line.unit * line.quantity))

MarginOnPassThrough(line) ==
  Only(line.provenance = "PASS_THROUGH" /\ line.buy # NoCost /\ line.sell > line.buy,
       Finding("MARGIN_ON_PASS_THROUGH", line.id, "CRITICAL", line.sell - line.buy))

VatTreatment(line, in) ==
  LET taxable == ChargeDef[line.code].taxable IN
  Only(~taxable /\ line.vatBps > 0,
       Finding("VAT_ON_DISBURSEMENT", line.id, "CRITICAL", Share(line.sell, line.vatBps)))
  \cup Only(taxable /\ line.vatBps = 0 /\ in.registered,
            Finding("MISSING_VAT", line.id, "WARN", 0))

Quantities(line, in) ==
  Only(line.basis = "PER_CONTAINER" /\ in.containers > 0 /\ line.quantity # in.containers,
       Finding("QUANTITY_VS_CONTAINERS", line.id, "WARN",
               line.sell - line.unit * in.containers))
  \cup Only(line.basis = "PER_DOCUMENT" /\ in.documents > 0 /\ line.quantity > in.documents,
            Finding("QUANTITY_VS_DOCUMENTS", line.id, "WARN",
                    line.unit * (line.quantity - in.documents)))

RateVariance(line, contracted) ==
  LET drift == BpsDrift(line.unit, contracted.unit)
      variance == (line.unit - contracted.unit) * line.quantity
  IN Only(Abs(drift) > Tolerance,
          Finding("CONTRACT_RATE_VARIANCE", line.id,
                  IF drift > 0 /\ Material(variance) THEN "CRITICAL" ELSE "WARN", variance))

AgainstContract(line, in) ==
  IF line.code \in DOMAIN in.contract
    THEN IF in.contract[line.code].currency # line.currency
           THEN {Finding("CONTRACT_CURRENCY_MISMATCH", line.id, "WARN", 0)}
           ELSE RateVariance(line, in.contract[line.code])
    ELSE Only(/\ line.provenance # "FORWARDER_ORIGINATED"
              /\ ~line.contractRef /\ ~line.vendorRef
              /\ Material(line.sell),
              Finding("NO_MATCH_REFERENCE", line.id, "WARN", 0))

\* The events any of which shows that the service was performed.
EvidenceRequired ==
  "DEL" :> {"container.gated_out", "pod.confirmed"}
  @@ "PCK" :> {"container.gated_in", "shipment.booked"}
  @@ "CCL" :> {"entry.submitted", "entry.released"}
  @@ "DEM" :> {"container.discharged"}
  @@ "DET" :> {"container.gated_out"}
  @@ "THC" :> {"container.discharged", "vessel.arrived"}

Performed(line, in) ==
  Only(/\ line.code \in DOMAIN EvidenceRequired
       /\ in.events # {}
       /\ EvidenceRequired[line.code] \cap in.events = {},
       Finding("SERVICE_NOT_EVIDENCED", line.id, "CRITICAL", line.sell))

LineFindings(in) ==
  UNION {Unmapped(line) \cup ForeignCurrency(line, in) \cup Arithmetic(line)
         \cup MarginOnPassThrough(line) \cup VatTreatment(line, in)
         \cup Quantities(line, in) \cup AgainstContract(line, in) \cup Performed(line, in)
         : line \in Range(in.lines)}

(***************************************************************************)
(* Fuel, time, duplicates and totals.                                      *)
(***************************************************************************)
FuelVariance(line, bench) ==
  LET drift == BpsDrift(line.unit, bench.expected) IN
  Only(line.currency = bench.currency /\ Abs(drift) > Tolerance,
       Finding("FUEL_INDEX_VARIANCE", line.id, IF drift > 0 THEN "CRITICAL" ELSE "WARN",
               (line.unit - bench.expected) * line.quantity))

FuelLines(lines) == {l \in Range(lines) : l.category = "FUEL_SURCHARGE"}

FuelFindings(in) ==
  IF FuelLines(in.lines) = {} THEN {}
  ELSE IF in.fuel = <<>> THEN {Finding("FUEL_BENCHMARK_UNAVAILABLE", Document, "WARN", 0)}
  ELSE UNION {FuelVariance(l, in.fuel[1]) : l \in FuelLines(in.lines)}

OfCode(lines, code) == SelectSeq(lines, LAMBDA l : l.code = code)

DaysBilled(lines) == Total(lines, LAMBDA l : l.quantity)

DemurrageFindings(in) ==
  LET lines == OfCode(in.lines, "DEM")
      chargeable == Greater(0, DaysBetween(in.discharged, in.gateOut) - in.freeTime)
      extra == DaysBilled(lines) - chargeable
  IN IF lines = <<>> THEN {}
     ELSE IF NoDay \in {in.discharged, in.gateOut, in.freeTime}
       THEN {Finding("DEMURRAGE_UNVERIFIABLE", lines[1].id, "WARN", 0)}
     ELSE Only(extra # 0,
               Finding("DEMURRAGE_DAYS_VARIANCE", lines[1].id,
                       IF extra > 0 THEN "CRITICAL" ELSE "WARN", lines[1].unit * extra))

OverlapFindings(in) ==
  LET dem == OfCode(in.lines, "DEM")
      det == OfCode(in.lines, "DET")
  IN IF dem = <<>> \/ det = <<>> \/ NoDay \in {in.discharged, in.emptied} THEN {}
     ELSE Only(DaysBilled(dem) + DaysBilled(det) > DaysBetween(in.discharged, in.emptied),
               Finding("DEMURRAGE_DETENTION_OVERLAP", det[1].id, "CRITICAL", 0))

SameLine(a, b) ==
  a.code = b.code /\ a.vendor = b.vendor /\ a.sell = b.sell /\ a.quantity = b.quantity

DuplicateFindings(in) ==
  {Finding("DUPLICATE_LINE", in.lines[j].id,
           IF Material(in.lines[j].sell) THEN "WARN" ELSE "INFO", in.lines[j].sell)
   : j \in {j \in DOMAIN in.lines : \E i \in 1 .. j - 1 : SameLine(in.lines[i], in.lines[j])}}

TotalFindings(in) ==
  LET computed == Total(in.lines, LAMBDA l : l.sell) IN
  Only(computed # in.subtotal,
       Finding("SUBTOTAL_MISMATCH", Document, "CRITICAL", in.subtotal - computed))
  \cup Only(in.subtotal + in.vat # in.total,
            Finding("TOTAL_MISMATCH", Document, "CRITICAL", in.total - (in.subtotal + in.vat)))

AuditInvoice(in) ==
  LineFindings(in) \cup FuelFindings(in) \cup DemurrageFindings(in)
  \cup OverlapFindings(in) \cup DuplicateFindings(in) \cup TotalFindings(in)

(***************************************************************************)
(* What a dispute packet claims: the quantified overcharges.               *)
(***************************************************************************)
Disputable(findings) == {f \in findings : f.severity # "INFO" /\ f.variance > 0}

ClaimedCents(findings) == Total(SetToSeq(Disputable(findings)), LAMBDA f : f.variance)

(***************************************************************************)
(* The invoice as a document (billing/invoice-document.ts): VAT line by    *)
(* line, the sections in the order of the taxonomy's categories, and the   *)
(* totals, negated for a credit note.  Labels, parties and the margin are  *)
(* left out.                                                               *)
(***************************************************************************)
\* Rounded on the magnitude, so that a credit note reverses it exactly.
LineVatCents(sell, vatBps) ==
  IF sell < 0 THEN -Share(-sell, vatBps) ELSE Share(sell, vatBps)

DocumentLines(type, lines) ==
  [i \in DOMAIN lines |->
    LET sell == IF type = "CREDIT_NOTE" THEN -lines[i].sell ELSE lines[i].sell
    IN [f \in DOMAIN lines[i] \cup {"vat"} |->
         IF f = "vat" THEN LineVatCents(sell, lines[i].vatBps)
         ELSE IF f = "sell" THEN sell
         ELSE lines[i][f]]]

\* The places of the lines of a category.
InCategory(lines, category) == {i \in DOMAIN lines : lines[i].category = category}

Sections(lines) ==
  LET used == {n \in DOMAIN CategoryOrder : InCategory(lines, CategoryOrder[n]) # {}}
      sells == [i \in DOMAIN lines |-> lines[i].sell]
      vats == [i \in DOMAIN lines |-> lines[i].vat]
  IN [n \in 1 .. Cardinality(used) |->
       LET category == CategoryOrder[Nth(used, n)]
           places == InCategory(lines, category)
       IN [category |-> category, subtotal |-> SumFunctionOnSet(sells, places),
           vat |-> SumFunctionOnSet(vats, places)]]

\* lines are the document's; disputed are the charges held back.
Totals(lines, disputed, paid) ==
  LET subtotal == Total(lines, LAMBDA l : l.sell)
      vat == Total(lines, LAMBDA l : l.vat)
  IN [subtotal |-> subtotal, vat |-> vat, total |-> subtotal + vat,
      outstanding |-> subtotal + vat - paid,
      disputed |-> Total(lines, LAMBDA l : IF l.id \in disputed THEN l.sell + l.vat ELSE 0)]
=============================================================================
