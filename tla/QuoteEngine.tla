----------------------------- MODULE QuoteEngine -----------------------------
(****************************************************************************)
(* Pricing (quoting/quote-engine.ts) and the rules about the cargo that     *)
(* feed it (consignments/packing.ts).                                       *)
(*                                                                          *)
(* A margin rule is a record of the customer, origin, destination and mode  *)
(* it names, Null for a null, with its margin in basis points, its floor in *)
(* cents and when it was created.  A rate card is a record with a sequence  *)
(* of surcharges; the sentinel Unknown stands for an unstated transit.  A   *)
(* request names the lane, the mode, the container, the quantity, the day,  *)
(* the cargo and the urgency.                                               *)
(****************************************************************************)
EXTENDS Cents, FiniteSets

Null == "null"
Unknown == 1000000

(***************************************************************************)
(* The cargo.                                                              *)
(***************************************************************************)
CargoUpliftBps(cargo) ==
  CASE cargo = "GENERAL" -> 0
    [] cargo = "HAZARDOUS" -> 3500
    [] cargo = "REEFER" -> 2500
    [] cargo = "PERISHABLE" -> 1200
    [] cargo = "OVERSIZED" -> 4000
    [] cargo = "VALUABLE" -> 1500
    [] cargo = "LIVE_ANIMALS" -> 5000

UrgencyUpliftBps(urgency) ==
  CASE urgency \in {"ECONOMY", "STANDARD"} -> 0
    [] urgency = "EXPRESS" -> 1800
    [] urgency = "CRITICAL" -> 4500

\* The transit a service level allows; Unknown is no ceiling.
TransitCap(urgency) ==
  CASE urgency \in {"ECONOMY", "STANDARD"} -> Unknown
    [] urgency = "EXPRESS" -> 21
    [] urgency = "CRITICAL" -> 10

VolumetricDivisor(mode) ==
  CASE mode = "AIR" -> 6000 [] mode = "OCEAN" -> 1000 [] mode \in {"ROAD", "RAIL"} -> 3000

\* Dimensions of one piece, weight of the whole line; 0 for a missing dimension.
ItemVolume(item) ==
  RoundHalfUp(item.length * item.width * item.height * item.pieces, 1000)

ConsignmentTotals(items, mode) ==
  LET gross == Total(items, LAMBDA i : i.grams)
      volume == Total(items, ItemVolume)
      volumetric == RoundHalfUp(volume * 1000, VolumetricDivisor(mode))
  IN [pieces |-> Total(items, LAMBDA i : i.pieces), gross |-> gross, volume |-> volume,
      volumetric |-> volumetric, chargeable |-> Greater(gross, volumetric)]

\* What stops the cargo: dangerous goods not declared, a reefer without a
\* range, a range upside down.  papers are the declaration's fields filled in.
Blocked(cargo, papers, range) ==
  \/ cargo = "HAZARDOUS" /\ papers # {"un", "class", "group"}
  \/ cargo = "REEFER" /\ range = <<>>
  \/ cargo \in {"REEFER", "PERISHABLE"} /\ range # <<>> /\ range[1] > range[2]

(***************************************************************************)
(* The margin.                                                             *)
(***************************************************************************)
RuleApplies(rule, req) ==
  /\ rule.customer \in {Null, req.customer}
  /\ rule.origin \in {Null, req.origin}
  /\ rule.destination \in {Null, req.destination}
  /\ rule.mode \in {Null, req.mode}

Score(rule) ==
  (IF rule.customer # Null THEN 8 ELSE 0)
  + (IF rule.origin # Null \/ rule.destination # Null THEN 4 ELSE 0)
  + (IF rule.mode # Null THEN 2 ELSE 0)

\* The highest score wins, and the newest of those; created is a rule's own.
Beats(a, b) ==
  Score(a) > Score(b) \/ (Score(a) = Score(b) /\ a.created > b.created)

Applicable(rules, req) == {r \in rules : RuleApplies(r, req)}

ResolveMarginRule(rules, req) ==
  CHOOSE r \in Applicable(rules, req) :
    \A s \in Applicable(rules, req) \ {r} : Beats(r, s)

\* The floor is the freight line's alone.
ApplyMargin(buy, rule, withFloor) ==
  LET marked == RoundHalfUp(buy * (10000 + rule.bps), 10000)
  IN IF withFloor THEN Greater(marked, buy + rule.floor) ELSE marked

(***************************************************************************)
(* The rate.  Amounts are compared as numbers, whatever their currency.    *)
(***************************************************************************)
Eligible(cards, req) ==
  {c \in cards :
    /\ c.origin = req.origin /\ c.destination = req.destination /\ c.mode = req.mode
    /\ c.container \in {Null, req.container}
    /\ c.from <= req.at /\ req.at <= c.to}

\* An unstated transit is not too slow.
InTime(cards, req) ==
  {c \in Eligible(cards, req) :
    \/ TransitCap(req.urgency) = Unknown
    \/ c.transit = Unknown
    \/ c.transit <= TransitCap(req.urgency)}

\* id is a rank: ids are compared when amounts are equal.
Cheapest(cards) ==
  CHOOSE c \in cards : \A d \in cards \ {c} :
    c.buy < d.buy \/ (c.buy = d.buy /\ c.id < d.id)

(***************************************************************************)
(* The quote.  sell and buy are the price of one unit.                     *)
(***************************************************************************)
QLine(code, quantity, buy, sell, currency) ==
  [code |-> code, quantity |-> quantity, buy |-> buy, sell |-> sell, currency |-> currency]

UpliftLine(code, bps, card, rule, req) ==
  LET buy == Share(card.buy, bps)
  IN IF bps > 0
       THEN <<QLine(code, req.quantity, buy, ApplyMargin(buy, rule, FALSE), card.currency)>>
       ELSE <<>>

SurchargeLine(s, card, rule, req) ==
  LET buy == IF s.basis = "PERCENT_OF_FREIGHT" THEN Share(card.buy, s.amount) ELSE s.amount
  IN QLine(s.code, IF s.basis = "PER_CONTAINER" THEN req.quantity ELSE 1,
           buy, ApplyMargin(buy, rule, FALSE),
           IF s.basis = "PERCENT_OF_FREIGHT" THEN card.currency ELSE s.currency)

QuoteLines(card, rule, req) ==
  <<QLine("FRT", req.quantity, card.buy, ApplyMargin(card.buy, rule, TRUE), card.currency)>>
  \o UpliftLine("HND", CargoUpliftBps(req.cargo), card, rule, req)
  \o UpliftLine("SVC", UrgencyUpliftBps(req.urgency), card, rule, req)
  \o [i \in DOMAIN card.surcharges |-> SurchargeLine(card.surcharges[i], card, rule, req)]

\* "QUOTED", or the error the engine throws, looked for in this order.
Pricing(req, cards, rules) ==
  IF Eligible(cards, req) = {} THEN "NO_RATE"
  ELSE IF InTime(cards, req) = {} THEN "NO_SERVICE_LEVEL"
  ELSE IF Applicable(rules, req) = {} THEN "NO_MARGIN_RULE"
  ELSE "QUOTED"

BuildQuote(req, cards, rules) ==
  QuoteLines(Cheapest(InTime(cards, req)), ResolveMarginRule(rules, req), req)

SellIn(lines, currency) ==
  Total(SelectSeq(lines, LAMBDA l : l.currency = currency), LAMBDA l : l.sell * l.quantity)

Currencies(lines) == {lines[i].currency : i \in DOMAIN lines}

\* The total a quote is filed under: the largest of its currencies'.
Headline(lines) ==
  CHOOSE cur \in Currencies(lines) :
    \A other \in Currencies(lines) : SellIn(lines, other) <= SellIn(lines, cur)
=============================================================================
