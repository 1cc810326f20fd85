---------------------------- MODULE InvoiceAudit -----------------------------
(***************************************************************************)
(* The audit of one invoice (billing/invoice-assembly.service.ts): the     *)
(* charges accrued from an accepted quote (projector/billing-accrual.ts)   *)
(* are matched against that quote, the events so far and the fuel index,   *)
(* and the findings are stored for people to accept, dispute or resolve.   *)
(*                                                                         *)
(* An audit reads everything it compares outside any transaction and       *)
(* writes its findings in one.  Reading is one step: the lines and the     *)
(* quote no longer change, and the events and the benchmark are compared   *)
(* with different lines.  Charges are numbered as the quote's lines are,   *)
(* and the platform's fees follow them.                                    *)
(*                                                                         *)
(* MaxAudits and MaxDecisions are bounds.                                  *)
(***************************************************************************)
EXTENDS InvoiceRules

CONSTANTS
  Sales,         \* the accepted quote's lines, the invoice's currency, the containers
  OwnSpellings,  \* the company's own spellings of charge codes
  VatBps, FeeBps,
  EventTypes,    \* the events that may yet happen
  Benchmarks,    \* what the fuel index may say: sequences of at most one quote
  Auditors, MaxAudits, MaxDecisions

\* A line of a quote is priced, for at least one of what it counts.
ASSUME SoldLines ==
  \A sale \in Sales :
    /\ sale.lines \in Seq(Range(sale.lines))
    /\ \A line \in Range(sale.lines) : line.sell \in Int /\ line.quantity \in Nat \ {0}

VARIABLES
  accepted,   \* the quote behind the invoice, and the invoice's currency
  happened,   \* the types of the shipment's events
  benchmark,  \* what benchmarkFor answers
  findings,   \* invoice_exceptions: from (code, charge) to severity, variance, status
  disputed,   \* the charges with disputed set
  apc,        \* where an auditor's call stands
  result,     \* the findings it computed
  audits,
  decided,    \* history: the last decision a person took on a finding
  decisions,
  lastResult  \* history: the result of the last audit that was stored

auditVars == <<accepted, happened, benchmark, findings, disputed, apc, result, audits,
               decided, decisions, lastResult>>

(***************************************************************************)
(* The invoice.                                                            *)
(***************************************************************************)
Charge(id, meta, quantity, unit, buy, currency, quoted) ==
  [id |-> id, code |-> meta.code, category |-> meta.category, basis |-> meta.basis,
   provenance |-> meta.provenance, vatBps |-> meta.vatBps, quantity |-> quantity,
   unit |-> unit, sell |-> unit * quantity, buy |-> buy, currency |-> currency,
   contractRef |-> quoted, vendorRef |-> FALSE, vendor |-> "none"]

\* Charging the buying price.
QuotedChargesAtCost(quote) ==
  [i \in DOMAIN quote |->
    Charge(i, ChargeMetadata(quote[i].code, VatBps, "FORWARDER_ORIGINATED"),
           quote[i].quantity, quote[i].buy, quote[i].buy * quote[i].quantity,
           quote[i].currency, TRUE)]

QuotedCharges(quote) ==
  [i \in DOMAIN quote |->
    LET line == quote[i]
        provenance == IF line.buy > 0 THEN "MARKED_UP" ELSE "FORWARDER_ORIGINATED"
    IN Charge(i, ChargeMetadata(line.code, VatBps, provenance), line.quantity, line.sell,
              line.buy * line.quantity, line.currency, TRUE)]

\* The fee of a partner's shipment, on its quote's total in the currency; its
\* VAT is 0, the column's default.
PlatformFee(quote, currency) ==
  LET sold == Total(SelectSeq(quote, LAMBDA l : l.currency = currency),
                    LAMBDA l : l.sell * l.quantity)
      fee == Share(sold, FeeBps)
  IN IF FeeBps = 0 \/ fee <= 0 THEN <<>>
     ELSE <<Charge(Len(quote) + 1, ChargeMetadata("PLF", 0, "FORWARDER_ORIGINATED"),
                   1, fee, NoCost, currency, FALSE)>>

\* An invoice bills the charges of its currency, in the order of their lines.
InvoiceCharges(sale) ==
  LET quoted == QuotedCharges(sale.lines)
      billed == {i \in DOMAIN quoted : quoted[i].currency = sale.currency}
  IN [n \in 1 .. Cardinality(billed) |-> quoted[Nth(billed, n)]]
     \o PlatformFee(sale.lines, sale.currency)

\* What issueInvoices states on the invoice.
Stated(charges) ==
  LET subtotal == Total(charges, LAMBDA c : c.sell)
      vat == Total(charges, LAMBDA c : LineVatCents(c.sell, c.vatBps))
  IN [subtotal |-> subtotal, vat |-> vat, total |-> subtotal + vat]

(***************************************************************************)
(* The inputs of the audit.                                                *)
(***************************************************************************)
Filed(line) == NormaliseChargeCode(line.code, OwnSpellings)

AuditLines(charges) ==
  [i \in DOMAIN charges |->
    [f \in DOMAIN charges[i] \cup {"match"} |->
      IF f \in {"code", "match"} THEN Filed(charges[i])[f] ELSE charges[i][f]]]

\* The last line of a code decides; its price is divided by its quantity.
ContractRates(quote) ==
  LET CodeOf(i) == Filed(quote[i]).code
      last == [code \in {CodeOf(i) : i \in DOMAIN quote} |->
                CHOOSE i \in DOMAIN quote :
                  /\ CodeOf(i) = code
                  /\ \A j \in i + 1 .. Len(quote) : CodeOf(j) # code]
  IN [code \in DOMAIN last |->
       [unit |-> RoundHalfUp(quote[last[code]].sell, quote[last[code]].quantity),
        currency |-> quote[last[code]].currency]]

\* Free time is not recorded anywhere, and no terminal feed is configured.
AuditInput ==
  LET charges == InvoiceCharges(accepted)
      lines == AuditLines(charges)
      stated == Stated(charges)
      Day(type) == IF type \in happened THEN 0 ELSE NoDay
  IN [currency |-> accepted.currency, registered |-> TRUE, lines |-> lines,
      contract |-> ContractRates(accepted.lines),
      fuel |-> IF FuelLines(lines) = {} THEN <<>> ELSE benchmark,
      containers |-> accepted.boxes, documents |-> 1, events |-> happened,
      freeTime |-> NoDay, discharged |-> Day("container.discharged"),
      gateOut |-> Day("container.gated_out"), emptied |-> NoDay,
      subtotal |-> stated.subtotal, vat |-> stated.vat, total |-> stated.total]

Key(f) == [code |-> f.code, charge |-> f.charge]

Codes(fs) == {f.code : f \in fs}

(***************************************************************************)
(* The actions.                                                            *)
(***************************************************************************)
AuditInit ==
  /\ accepted \in Sales
  /\ happened = {"shipment.booked"}
  /\ benchmark = <<>>
  /\ findings = <<>>
  /\ disputed = {}
  /\ apc = [a \in Auditors |-> "idle"]
  /\ result = [a \in Auditors |-> {}]
  /\ audits = 0
  /\ decided = <<>>
  /\ decisions = 0
  /\ lastResult = {}

Happen(type) ==
  /\ type \notin happened
  /\ happened' = happened \cup {type}
  /\ UNCHANGED <<accepted, benchmark, findings, disputed, apc, result, audits, decided,
                 decisions, lastResult>>

\* A quote of the index arrives, or the cached one grows too old.
IndexMoves ==
  /\ \E b \in Benchmarks \ {benchmark} : benchmark' = b
  /\ UNCHANGED <<accepted, happened, findings, disputed, apc, result, audits, decided,
                 decisions, lastResult>>

AuditRead(a) ==
  /\ apc[a] = "idle" /\ audits < MaxAudits
  /\ apc' = [apc EXCEPT ![a] = "store"]
  /\ result' = [result EXCEPT ![a] = AuditInvoice(AuditInput)]
  /\ audits' = audits + 1
  /\ UNCHANGED <<accepted, happened, benchmark, findings, disputed, decided, decisions,
                 lastResult>>

\* Opening again whatever is found again.
UpsertedOpen(fs) ==
  [k \in {Key(f) : f \in fs} |->
    LET f == CHOOSE f \in fs : Key(f) = k
    IN [severity |-> f.severity, variance |-> f.variance, status |-> "OPEN"]]
  @@ findings

\* A finding that is stored keeps its status.
Upserted(fs) ==
  LET found == {Key(f) : f \in fs}
      Again(k) == CHOOSE f \in fs : Key(f) = k
  IN [k \in found \cup DOMAIN findings |->
       IF k \notin found THEN findings[k]
       ELSE [severity |-> Again(k).severity, variance |-> Again(k).variance,
             status |-> IF k \in DOMAIN findings THEN findings[k].status ELSE "OPEN"]]

SettledNone(fs, table) == table

\* Those no longer found, unless nothing at all was found.
Settled(fs, table) ==
  [k \in DOMAIN table |->
    IF fs # {} /\ table[k].status = "OPEN" /\ k.code \notin Codes(fs)
      THEN [table[k] EXCEPT !.status = "RESOLVED"]
      ELSE table[k]]

AuditCommit(a) ==
  /\ apc[a] = "store"
  /\ apc' = [apc EXCEPT ![a] = "idle"]
  /\ findings' = Settled(result[a], Upserted(result[a]))
  /\ lastResult' = result[a]
  /\ result' = [result EXCEPT ![a] = {}]
  /\ UNCHANGED <<accepted, happened, benchmark, disputed, audits, decided, decisions>>

AuditFails(a) ==
  /\ apc[a] = "store"
  /\ apc' = [apc EXCEPT ![a] = "idle"]
  /\ result' = [result EXCEPT ![a] = {}]
  /\ UNCHANGED <<accepted, happened, benchmark, findings, disputed, audits, decided,
                 decisions, lastResult>>

\* A person's decision, which also says whether the charge is disputed.
ResolveException(k, status) ==
  /\ decisions < MaxDecisions
  /\ findings' = [findings EXCEPT ![k].status = status]
  /\ disputed' = IF k.charge = Document THEN disputed
                 ELSE IF status = "DISPUTED" THEN disputed \cup {k.charge}
                 ELSE disputed \ {k.charge}
  /\ decided' = [j \in DOMAIN decided \cup {k} |-> IF j = k THEN status ELSE decided[j]]
  /\ decisions' = decisions + 1
  /\ UNCHANGED <<accepted, happened, benchmark, apc, result, audits, lastResult>>

AuditNext ==
  \/ \E type \in EventTypes : Happen(type)
  \/ IndexMoves
  \/ \E a \in Auditors : AuditRead(a) \/ AuditCommit(a) \/ AuditFails(a)
  \/ \E k \in DOMAIN findings, status \in {"ACCEPTED", "DISPUTED", "RESOLVED"} :
       ResolveException(k, status)

AuditSpec == AuditInit /\ [][AuditNext]_auditVars

(***************************************************************************)
(* The properties.                                                         *)
(***************************************************************************)
\* A person's decision on a finding stands, however many audits run after it
\* and whatever they find (runAudit leaves the status of a stored finding, and
\* resolves only open ones).
DecisionKept == \A k \in DOMAIN decided : findings[k].status = decided[k]

\* A charge is held back only while some finding on it is in dispute: neither
\* an audit that no longer finds the fault nor a decision on another finding
\* of the charge leaves it held without one.
HeldOnlyIfDisputed ==
  \A c \in disputed :
    \E k \in DOMAIN findings : k.charge = c /\ findings[k].status = "DISPUTED"

\* What is open was found by the last audit that was stored, or shares its
\* code with something it found, or that audit found nothing at all: an audit
\* settles what it no longer finds by code, and only if it finds something.
OpenIsCurrent ==
  \A k \in DOMAIN findings :
    findings[k].status = "OPEN" => k.code \in Codes(lastResult) \/ lastResult = {}

\* However audits and people's decisions cross, what a person decided stands, no
\* charge is held without a dispute, and no finding stays open that has gone.
FindingsStand == DecisionKept /\ HeldOnlyIfDisputed /\ OpenIsCurrent

\* The invoice is made of the accepted quote and held to that quote, so its
\* lines match their contract; they fail to only where the unit price was
\* divided by a quantity, or another line of the quote is filed under the code
\* that the line is audited under.
VarianceOnlyByQuantity ==
  \A k \in DOMAIN findings :
    k.code = "CONTRACT_RATE_VARIANCE" =>
      \E line \in Range(AuditLines(InvoiceCharges(accepted))) :
        /\ line.id = k.charge
        /\ \/ line.quantity > 1
           \/ \E i \in DOMAIN accepted.lines \ {line.id} :
                Filed(accepted.lines[i]).code = line.code

\* What an invoice can be found to be in itself, without a contract, an event or an
\* index to hold it to and its VAT apart: sums that do not add up, another currency among its lines, a
\* margin on what is passed through, and a charge of nobody's.
OwnFaults == {"LINE_ARITHMETIC", "SUBTOTAL_MISMATCH", "TOTAL_MISMATCH", "CURRENCY_MISMATCH",
              "MARGIN_ON_PASS_THROUGH", "NO_MATCH_REFERENCE"}

\* The invoice that accrual and issueInvoices make adds up and keeps to one currency:
\* whatever was sold, and in however many currencies, no audit finds one of these
\* faults with it.  The missing VAT of the platform's own fee is not among them: the fee
\* is booked without a rate, and an audit does report that.
SoundInItself == \A k \in DOMAIN findings : k.code \notin OwnFaults

\* An audit finds an invoice of ours at variance with its quote only in a quantity, and
\* never with one of the faults of OwnFaults.
HeldToItsQuote == VarianceOnlyByQuantity /\ SoundInItself

\* "The quote is what this customer was actually sold ... Holding the invoice
\* to anything else means winning an argument against a number the customer
\* never agreed to": an invoice of nothing but the quote varies from it nowhere.
OwnQuoteMatches == \A k \in DOMAIN findings : k.code # "CONTRACT_RATE_VARIANCE"

\* Charges as the documents of an issued invoice are made of: of some category, and
\* nothing sold or taxed below zero.
Billable(charges) ==
  /\ charges \in Seq(Range(charges))
  /\ \A c \in Range(charges) :
       /\ {"id", "sell", "vatBps", "category"} \subseteq DOMAIN c
       /\ c.sell \in Nat /\ c.vatBps \in Nat
       /\ c.category \in Range(CategoryOrder)

\* The document foots: its sections add up to the totals issueInvoices stored,
\* what is held back is part of them, and its credit note cancels it to the cent.
Foots(charges, held) ==
  LET lines == DocumentLines("FREIGHT_INVOICE", charges)
      credit == Totals(DocumentLines("CREDIT_NOTE", charges), held, 0)
      totals == Totals(lines, held, 0)
  IN /\ Total(Sections(lines), LAMBDA s : s.subtotal + s.vat) = Stated(charges).total
     /\ totals.total = Stated(charges).total
     /\ totals.disputed \in 0 .. totals.total
     /\ totals.total + credit.total = 0 /\ totals.disputed + credit.disputed = 0
=============================================================================
