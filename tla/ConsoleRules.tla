---------------------------- MODULE ConsoleRules -----------------------------
(***************************************************************************)
(* The rules of the seeded console (console/domain.js and the pricing of   *)
(* console/store.js), which says that it ports them from the platform.     *)
(* They are translated from the console's own code and use the records of  *)
(* QuoteEngine, InvoiceRules and Cents, so that the two can be compared.   *)
(*                                                                         *)
(* An amount that the console divides and multiplies as a floating point   *)
(* number is a ratio here, rounded where the console rounds it.  Labels,   *)
(* messages and the formatting of figures are left out.                    *)
(***************************************************************************)
EXTENDS Cents, FiniteSets, TLC

Nothing == "null"        \* a field that is null
NoLimit == 1000000       \* an unstated transit, and no ceiling on it
Unrecorded == -1         \* a cost or a day that is not recorded

(***************************************************************************)
(* Packing and handling.                                                   *)
(***************************************************************************)
Divisor(mode) ==
  CASE mode = "AIR" -> 6000 [] mode \in {"ROAD", "RAIL"} -> 3000 [] OTHER -> 1000

CargoTypes ==
  [GENERAL |-> 0, HAZARDOUS |-> 3500, REEFER |-> 2500, PERISHABLE |-> 1200,
   OVERSIZED |-> 4000, VALUABLE |-> 1500, LIVE_ANIMALS |-> 5000]

Urgencies ==
  [ECONOMY |-> [bps |-> 0, days |-> NoLimit], STANDARD |-> [bps |-> 0, days |-> NoLimit],
   EXPRESS |-> [bps |-> 1800, days |-> 21], CRITICAL |-> [bps |-> 4500, days |-> 10]]

\* A line whose dimensions are not all stated takes no space.
Volume(item) ==
  IF 0 \in {item.length, item.width, item.height} THEN 0
  ELSE RoundHalfUp(item.length * item.width * item.height * item.pieces, 1000)

ComputeTotals(items, mode) ==
  LET gross == Total(items, LAMBDA i : i.grams)
      volume == Total(items, Volume)
      volumetric == RoundHalfUp(volume * 1000, Divisor(mode))
  IN [pieces |-> Total(items, LAMBDA i : i.pieces), gross |-> gross, volume |-> volume,
      volumetric |-> volumetric, chargeable |-> Greater(gross, volumetric)]

\* What refuses the cargo.  A range that is upside down does not.
BlockedCargo(cargo, papers, range) ==
  \/ cargo = "HAZARDOUS" /\ papers # {"un", "class", "group"}
  \/ cargo = "REEFER" /\ range = <<>>

(***************************************************************************)
(* The taxonomy of charges.                                                *)
(***************************************************************************)
Coded(cat, kind, basis, prov, tax) ==
  [cat |-> cat, kind |-> kind, basis |-> basis, prov |-> prov, tax |-> tax]

\* Code, category, kind, basis, whose service it is, and whether VAT is due.
CodeTable ==
  "PCK" :> Coded("ORIGIN", "FREIGHT", "PER_SHIPMENT", "MARKED_UP", TRUE)
  @@ "OHC" :> Coded("ORIGIN", "SURCHARGE", "PER_CONTAINER", "PASS_THROUGH", TRUE)
  @@ "EXW" :> Coded("ORIGIN", "FEE", "PER_SHIPMENT", "FORWARDER_ORIGINATED", TRUE)
  @@ "VGM" :> Coded("ORIGIN", "FEE", "PER_CONTAINER", "PASS_THROUGH", TRUE)
  @@ "FRT" :> Coded("FREIGHT", "FREIGHT", "PER_CONTAINER", "MARKED_UP", TRUE)
  @@ [c \in {"HND", "SVC"} |->
        Coded("FREIGHT", "SURCHARGE", "PER_SHIPMENT", "FORWARDER_ORIGINATED", TRUE)]
  @@ [c \in {"BAF", "EBS"} |-> Coded("FUEL", "SURCHARGE", "PER_CONTAINER", "PASS_THROUGH", TRUE)]
  @@ "CAF" :> Coded("FUEL", "SURCHARGE", "PERCENTAGE", "PASS_THROUGH", TRUE)
  @@ [c \in {"THC", "ISPS"} |-> Coded("DEST", "SURCHARGE", "PER_CONTAINER", "PASS_THROUGH", TRUE)]
  @@ "WHF" :> Coded("DEST", "DISBURSEMENT", "PER_CONTAINER", "PASS_THROUGH", TRUE)
  @@ "DEL" :> Coded("DEST", "FREIGHT", "PER_CONTAINER", "MARKED_UP", TRUE)
  @@ "TOL" :> Coded("DEST", "DISBURSEMENT", "PER_SHIPMENT", "PASS_THROUGH", TRUE)
  @@ "CCL" :> Coded("CUSTOMS", "FEE", "PER_SHIPMENT", "FORWARDER_ORIGINATED", TRUE)
  @@ "DSB" :> Coded("CUSTOMS", "FEE", "PERCENTAGE", "FORWARDER_ORIGINATED", TRUE)
  @@ "DTY" :> Coded("DUTY", "DISBURSEMENT", "PER_SHIPMENT", "PASS_THROUGH", FALSE)
  @@ "DOC" :> Coded("DOCS", "FEE", "PER_DOCUMENT", "FORWARDER_ORIGINATED", TRUE)
  @@ [c \in {"TLX", "AMS"} |-> Coded("DOCS", "FEE", "PER_DOCUMENT", "PASS_THROUGH", TRUE)]
  @@ "COO" :> Coded("DOCS", "DISBURSEMENT", "PER_DOCUMENT", "PASS_THROUGH", TRUE)
  @@ [c \in {"DEM", "DET"} |-> Coded("TIME", "DISBURSEMENT", "PER_DAY", "PASS_THROUGH", TRUE)]
  @@ "INS" :> Coded("INS", "DISBURSEMENT", "PERCENTAGE", "PASS_THROUGH", FALSE)
  @@ "PLF" :> Coded("PLATFORM", "FEE", "PERCENTAGE", "FORWARDER_ORIGINATED", TRUE)
  @@ "MSC" :> Coded("OTHER", "FEE", "PER_SHIPMENT", "FORWARDER_ORIGINATED", TRUE)

CatOrder ==
  <<"ORIGIN", "FREIGHT", "FUEL", "DEST", "CUSTOMS", "DUTY", "DOCS", "TIME", "INS",
    "PLATFORM", "OTHER">>

\* aliases are the company's own, spellings the built-in ones.
NormaliseCode(raw, aliases, spellings) ==
  IF raw \in DOMAIN aliases /\ aliases[raw] \in DOMAIN CodeTable
    THEN [code |-> aliases[raw], match |-> IF aliases[raw] = raw THEN "exact" ELSE "alias"]
  ELSE IF raw \in DOMAIN CodeTable THEN [code |-> raw, match |-> "exact"]
  ELSE IF raw \in DOMAIN spellings THEN [code |-> spellings[raw], match |-> "alias"]
  ELSE [code |-> "MSC", match |-> "fallback"]

(***************************************************************************)
(* Duty.                                                                   *)
(***************************************************************************)
DutyForLine(line) ==
  LET duty == Share(line.value, line.rateBps)
      atv == line.value + duty + (IF line.sacu THEN 0 ELSE Share(line.value, 1000))
      vat == Share(atv, 1500)
  IN [value |-> line.value, duty |-> duty, atv |-> atv, vat |-> vat]

EntryPayable(lines) ==
  Total(lines, LAMBDA l : DutyForLine(l).duty + DutyForLine(l).vat)

(***************************************************************************)
(* Pricing.                                                                *)
(***************************************************************************)
\* Rand cents of a cent, in hundredths.
FxHundredths == [USD |-> 1862, EUR |-> 2015, ZAR |-> 100]

ToZar(cents, currency) == RoundHalfUp(cents * FxHundredths[currency], 100)

SelectRateCards(cards, req) ==
  {c \in cards :
    /\ c.origin = req.origin /\ c.destination = req.destination /\ c.mode = req.mode
    /\ c.container = req.container
    /\ c.from <= req.at /\ req.at <= c.to
    /\ \/ Urgencies[req.urgency].days = NoLimit
       \/ c.transit = NoLimit
       \/ c.transit <= Urgencies[req.urgency].days}

RuleFits(rule, req) ==
  /\ rule.customer \in {Nothing, req.customer}
  /\ rule.origin \in {Nothing, req.origin}
  /\ rule.destination \in {Nothing, req.destination}
  /\ rule.mode \in {Nothing, req.mode}

\* How much a rule names counts, not what.
Dims(rule) ==
  Cardinality({f \in {"customer", "origin", "destination", "mode"} : rule[f] # Nothing})

\* A company without a rule sells at eighteen percent, with no floor.
ResolveRule(rules, req) ==
  LET fitting == {r \in rules : RuleFits(r, req)} IN
  IF fitting = {} THEN [bps |-> 1800, floor |-> 0]
  ELSE CHOOSE r \in fitting : \A s \in fitting \ {r} :
         Dims(r) > Dims(s) \/ (Dims(r) = Dims(s) /\ r.created > s.created)

\* The floor is every line's, converted into its currency; buy and sell are the
\* whole line's.
PriceLine(code, quantity, each, currency, rule, basis) ==
  LET buy == each * quantity
      floor == RoundHalfUp(rule.floor * 100, FxHundredths[currency])
      sell == Greater(RoundHalfUp(buy * (10000 + rule.bps), 10000), buy + floor)
  IN [code |-> code, quantity |-> quantity, basis |-> basis, buy |-> buy, sell |-> sell,
      currency |-> currency, buyZar |-> ToZar(buy, currency), sellZar |-> ToZar(sell, currency)]

SurchargePrice(s, card, rule, req) ==
  CASE s.basis = "PERCENT_OF_FREIGHT" ->
         PriceLine(s.code, 1, Share(card.buy * req.quantity, s.amount), s.currency, rule, "PERCENTAGE")
    [] s.basis = "PER_CONTAINER" ->
         PriceLine(s.code, req.quantity, s.amount, s.currency, rule, "PER_CONTAINER")
    [] s.basis = "PER_BL" ->
         PriceLine(s.code, 1, s.amount, s.currency, rule, "PER_DOCUMENT")
    [] OTHER -> PriceLine(s.code, 1, s.amount, s.currency, rule, "PER_SHIPMENT")

\* An uplift is a share of the freight's price, and costs nothing to buy.
UpliftPrice(code, bps, freight) ==
  LET sell == Share(freight.sell, bps) IN
  IF bps = 0 THEN <<>>
  ELSE <<[code |-> code, quantity |-> 1, basis |-> "PER_SHIPMENT", buy |-> 0, sell |-> sell,
          currency |-> freight.currency, buyZar |-> 0, sellZar |-> ToZar(sell, freight.currency)]>>

PriceCard(card, rule, req) ==
  LET freight == PriceLine("FRT", req.quantity, card.buy, card.currency, rule, "PER_CONTAINER")
  IN <<freight>>
     \o [i \in DOMAIN card.surcharges |-> SurchargePrice(card.surcharges[i], card, rule, req)]
     \o UpliftPrice("HND", CargoTypes[req.cargo], freight)
     \o UpliftPrice("SVC", Urgencies[req.urgency].bps, freight)

\* id stands for a card's place in the store: the sort is stable.
Quotable(cards, req) == SelectRateCards(cards, req) # {}

Price(cards, rules, req) ==
  LET fit == SelectRateCards(cards, req)
      card == CHOOSE c \in fit : \A d \in fit \ {c} :
                c.buy < d.buy \/ (c.buy = d.buy /\ c.id < d.id)
  IN PriceCard(card, ResolveRule(rules, req), req)
(***************************************************************************)
(* The invoice as a document, and its audit.                               *)
(***************************************************************************)
LineVat(sell, vatBps) == (IF sell < 0 THEN -1 ELSE 1) * Share(Abs(sell), vatBps)

BuildDocument(type, lines, held) ==
  LET sign == IF type = "CREDIT_NOTE" THEN -1 ELSE 1
      Sell(l) == sign * l.sell
      Vat(l) == LineVat(sign * l.sell, l.vatBps)
      Of(cat) == SelectSeq(lines, LAMBDA l : CodeTable[l.code].cat = cat)
      used == SelectSeq(CatOrder, LAMBDA cat : Of(cat) # <<>>)
      disputed == SelectSeq(lines, LAMBDA l : l.id \in held)
  IN [subtotal |-> Total(lines, Sell), vat |-> Total(lines, Vat),
      total |-> Total(lines, Sell) + Total(lines, Vat),
      disputed |-> Total(disputed, LAMBDA l : Sell(l) + Vat(l)),
      sections |-> [i \in DOMAIN used |-> <<Total(Of(used[i]), Sell), Total(Of(used[i]), Vat)>>]]

Evidence ==
  [DEL |-> {"container.gated_out", "pod.confirmed"},
   PCK |-> {"container.gated_in", "shipment.booked"},
   CCL |-> {"entry.submitted", "entry.released"},
   DEM |-> {"container.discharged"},
   DET |-> {"container.gated_out"},
   THC |-> {"container.discharged", "vessel.arrived"}]

Found(code, charge, severity, variance) ==
  [code |-> code, charge |-> charge, severity |-> severity, variance |-> variance]

WhenTrue(condition, finding) == {f \in {finding} : condition}

Worth(cents) == Abs(cents) >= 5000

Drift(actual, expected) ==
  IF expected = 0 THEN 10000 ELSE RoundHalfUp((actual - expected) * 10000, Abs(expected))

OffRate(code, line, expected, worth) ==
  LET drift == Drift(line.unit, expected)
      variance == (line.unit - expected) * line.quantity
  IN WhenTrue(Abs(drift) > 500,
              Found(code, line.id,
                    IF drift > 0 /\ (Worth(variance) \/ ~worth) THEN "CRITICAL" ELSE "WARN", variance))

Matching(l, in) ==
  IF l.code \in DOMAIN in.contract
    THEN IF in.contract[l.code].currency = l.currency
           THEN OffRate("CONTRACT_RATE_VARIANCE", l, in.contract[l.code].unit, TRUE)
           ELSE {Found("CONTRACT_CURRENCY_MISMATCH", l.id, "WARN", 0)}
    ELSE WhenTrue(l.provenance # "FORWARDER_ORIGINATED" /\ ~l.contractRef /\ ~l.vendorRef /\ Worth(l.sell),
                  Found("NO_MATCH_REFERENCE", l.id, "WARN", 0))

OfLine(l, in) ==
  LET tax == CodeTable[l.code].tax IN
  UNION
  {WhenTrue(l.match = "fallback",
            Found("UNMAPPED_CHARGE_CODE", l.id, IF Worth(l.sell) THEN "WARN" ELSE "INFO", 0)),
   WhenTrue(l.currency # in.currency, Found("CURRENCY_MISMATCH", l.id, "CRITICAL", 0)),
   WhenTrue(l.unit * l.quantity # l.sell,
            Found("LINE_ARITHMETIC", l.id, "WARN", l.sell - l.unit * l.quantity)),
   WhenTrue(l.provenance = "PASS_THROUGH" /\ l.buy # Unrecorded /\ l.sell > l.buy,
            Found("MARGIN_ON_PASS_THROUGH", l.id, "CRITICAL", l.sell - l.buy)),
   WhenTrue(~tax /\ l.vatBps > 0,
            Found("VAT_ON_DISBURSEMENT", l.id, "CRITICAL", LineVat(l.sell, l.vatBps))),
   WhenTrue(tax /\ l.vatBps = 0 /\ in.registered, Found("MISSING_VAT", l.id, "WARN", 0)),
   WhenTrue(l.basis = "PER_CONTAINER" /\ in.containers > 0 /\ l.quantity # in.containers,
            Found("QUANTITY_VS_CONTAINERS", l.id, "WARN", l.sell - l.unit * in.containers)),
   WhenTrue(l.basis = "PER_DOCUMENT" /\ in.documents > 0 /\ l.quantity > in.documents,
            Found("QUANTITY_VS_DOCUMENTS", l.id, "WARN", l.unit * (l.quantity - in.documents))),
   Matching(l, in),
   WhenTrue(l.code \in DOMAIN Evidence /\ in.events # {} /\ Evidence[l.code] \cap in.events = {},
            Found("SERVICE_NOT_EVIDENCED", l.id, "CRITICAL", l.sell))}

OfFuel(in) ==
  LET fuel == {l \in Range(in.lines) : CodeTable[l.code].cat = "FUEL"} IN
  IF fuel # {} /\ in.fuel = <<>> THEN {Found("FUEL_BENCHMARK_UNAVAILABLE", 0, "WARN", 0)}
  ELSE UNION {OffRate("FUEL_INDEX_VARIANCE", l, in.fuel[1].expected, FALSE)
              : l \in {l \in fuel : l.currency = in.fuel[1].currency}}

\* The facts' times are in hours, and part days count.
DaysBetween(from, to) == Greater(0, (to - from + 23) \div 24)

Days(lines) == Total(lines, LAMBDA l : l.quantity)

OfTime(in) ==
  LET dem == SelectSeq(in.lines, LAMBDA l : l.code = "DEM")
      det == SelectSeq(in.lines, LAMBDA l : l.code = "DET")
      extra == Days(dem) - Greater(0, DaysBetween(in.discharged, in.gateOut) - in.freeTime)
  IN IF dem = <<>> THEN {}
     ELSE (IF Unrecorded \in {in.discharged, in.gateOut, in.freeTime}
             THEN {Found("DEMURRAGE_UNVERIFIABLE", dem[1].id, "WARN", 0)}
             ELSE WhenTrue(extra # 0,
                    Found("DEMURRAGE_DAYS_VARIANCE", dem[1].id,
                          IF extra > 0 THEN "CRITICAL" ELSE "WARN", dem[1].unit * extra)))
          \cup (IF det = <<>> \/ Unrecorded \in {in.discharged, in.emptied} THEN {}
                ELSE WhenTrue(Days(dem) + Days(det) > DaysBetween(in.discharged, in.emptied),
                       Found("DEMURRAGE_DETENTION_OVERLAP", det[1].id, "CRITICAL", 0)))

OfDuplicates(in) ==
  LET Key(l) == <<l.code, l.vendor, l.sell, l.quantity>> IN
  {Found("DUPLICATE_LINE", in.lines[j].id, IF Worth(in.lines[j].sell) THEN "WARN" ELSE "INFO",
         in.lines[j].sell)
   : j \in {j \in DOMAIN in.lines : \E i \in 1 .. j - 1 : Key(in.lines[i]) = Key(in.lines[j])}}

OfTotals(in) ==
  LET computed == Total(in.lines, LAMBDA l : l.sell) IN
  WhenTrue(computed # in.subtotal, Found("SUBTOTAL_MISMATCH", 0, "CRITICAL", in.subtotal - computed))
  \cup WhenTrue(in.subtotal + in.vat # in.total,
                Found("TOTAL_MISMATCH", 0, "CRITICAL", in.total - (in.subtotal + in.vat)))

Audit(in) ==
  UNION {OfLine(l, in) : l \in Range(in.lines)}
  \cup OfFuel(in) \cup OfTime(in) \cup OfDuplicates(in) \cup OfTotals(in)

\* What a packet claims: a severity above INFO, and money asked for.
Claimed(findings) ==
  Total(SetToSeq({f \in findings : f.severity # "INFO" /\ f.variance > 0}), LAMBDA f : f.variance)
=============================================================================
