------------------------------- MODULE Quoting -------------------------------
(***************************************************************************)
(* Where quotes come from: the margin rules staff keep                     *)
(* (rates/rates.service.ts), the consignments they correct                 *)
(* (consignments/consignments.service.ts), and the requests that arrive by *)
(* mail (ingest/rfq.service.ts), which quoting/quoting.service.ts prices   *)
(* and stores.                                                             *)
(*                                                                         *)
(* Each of these reads first and writes later, without a lock in between.  *)
(* Rules are told apart by created.  A correction is a function from the   *)
(* fields it sets to their values.  A request for a quote is answered by a *)
(* delivery of its message; a message may be delivered more than once, at  *)
(* the same time.                                                          *)
(*                                                                         *)
(* MaxRules, MaxEdits, MaxScreenings and MaxQuoteFaults are bounds.        *)
(***************************************************************************)
EXTENDS QuoteEngine, TLC

CONSTANTS
  Staff,
  Rule(_, _),    \* Rule(n, origin): the n-th rule created, for an origin or Null
  Lane,          \* the origin a rule may be narrowed to
  MaxRules,
  Corrections,   \* what staff may send to correct the consignment
  MaxEdits,
  Deliveries, MessageOf,  \* MessageOf[d]: the message a delivery carries
  Request, Cards,         \* what every message asks for, and the rate cards
  MaxScreenings, MaxQuoteFaults

\* A row of margin_rules; customer, origin, destination and mode may be Null.
MarginRule ==
  [customer : STRING, origin : {Null, Lane}, destination : STRING, mode : STRING,
   bps : Int, floor : Int, created : Nat]

\* The tenant starts with a rule for everything.
ASSUME QuotingAssumption ==
  /\ \A origin \in {Null, Lane} : \A n \in 1 .. MaxRules :
       LET rule == Rule(n, origin) IN
       rule \in MarginRule /\ rule.created = n /\ rule.origin = origin
  /\ {Rule(1, Null).customer, Rule(1, Null).destination, Rule(1, Null).mode} = {Null}
  /\ MaxRules \in Nat \ {0}
  /\ {MaxEdits, MaxScreenings, MaxQuoteFaults} \subseteq Nat

VARIABLES
  rules, created,     \* rows of margin_rules, and how many there have been
  deleting,           \* the rule a member of staff was allowed to delete, 0 for none
  narrowed,           \* history: a catch-all rule has been narrowed
  deletesMet,         \* history: two deletions were under way at once
  cargo,              \* the consignment's row
  editing,            \* the correction a member of staff was allowed to make
  edits,
  editsMet,           \* history: two corrections were under way at once
  screening,          \* parties.screening_status of the sender
  screenings,         \* how often it has changed
  stage,              \* where a delivery stands
  checked,            \* screenings when the delivery read the status
  captured,           \* deliveries whose consignment was stored
  quotes,             \* stored quotes, with the delivery each came from
  answer,             \* what a delivery was answered
  quoteFaults

ruleVars == <<rules, created, deleting, narrowed, deletesMet>>
cargoVars == <<cargo, editing, edits, editsMet>>
rfqVars == <<screening, screenings, stage, checked, captured, quotes, answer, quoteFaults>>
quotingVars == <<ruleVars, cargoVars, rfqVars>>

QuotingInit ==
  /\ rules = {Rule(1, Null)} /\ created = 1
  /\ deleting = [s \in Staff |-> 0]
  /\ narrowed = FALSE /\ deletesMet = FALSE
  /\ cargo = [cargo |-> "GENERAL", papers |-> {}, range |-> <<>>]
  /\ editing = [s \in Staff |-> <<>>]
  /\ edits = 0 /\ editsMet = FALSE
  /\ screening = "CLEAR" /\ screenings = 0
  /\ stage = [d \in Deliveries |-> "new"]
  /\ checked = [d \in Deliveries |-> 0]
  /\ captured = {} /\ quotes = {}
  /\ answer = [d \in Deliveries |-> "none"]
  /\ quoteFaults = 0

(***************************************************************************)
(* Margin rules.                                                           *)
(***************************************************************************)
CatchAll(r) == {r.customer, r.origin, r.destination, r.mode} = {Null}

CreateMarginRule(origin) ==
  /\ created < MaxRules
  /\ rules' = rules \cup {Rule(created + 1, origin)}
  /\ created' = created + 1
  /\ UNCHANGED <<deleting, narrowed, deletesMet, cargoVars, rfqVars>>

UpdateMarginRule(r, origin) ==
  /\ r.origin # origin
  /\ rules' = (rules \ {r}) \cup {[r EXCEPT !.origin = origin]}
  /\ narrowed' = (narrowed \/ CatchAll(r))
  /\ UNCHANGED <<created, deleting, deletesMet, cargoVars, rfqVars>>

\* Counting the rule that is to be deleted.
MayDeleteAny(r) == \E other \in rules : CatchAll(other)

\* The last catch-all rule is not deleted.
MayDelete(r) == CatchAll(r) => \E other \in rules \ {r} : CatchAll(other)

DeleteRead(s, r) ==
  /\ deleting[s] = 0
  /\ MayDelete(r)
  /\ deleting' = [deleting EXCEPT ![s] = r.created]
  /\ deletesMet' = (deletesMet \/ \E t \in Staff : deleting[t] # 0)
  /\ UNCHANGED <<rules, created, narrowed, cargoVars, rfqVars>>

DeleteCommit(s) ==
  /\ deleting[s] # 0
  /\ rules' = {r \in rules : r.created # deleting[s]}
  /\ deleting' = [deleting EXCEPT ![s] = 0]
  /\ UNCHANGED <<created, narrowed, deletesMet, cargoVars, rfqVars>>

(***************************************************************************)
(* Corrections of the consignment.                                         *)
(***************************************************************************)
\* As the value of a new row.
MergedWithNothing(e) == e @@ [cargo |-> "GENERAL", papers |-> {}, range |-> <<>>]

\* What a field a correction leaves out is checked as: the stored value.
Merged(e) == e @@ cargo

EditRead(s, e) ==
  /\ editing[s] = <<>> /\ edits < MaxEdits
  /\ ~Blocked(Merged(e).cargo, Merged(e).papers, Merged(e).range)
  /\ editing' = [editing EXCEPT ![s] = e]
  /\ edits' = edits + 1
  /\ editsMet' = (editsMet \/ \E t \in Staff : editing[t] # <<>>)
  /\ UNCHANGED <<cargo, ruleVars, rfqVars>>

\* Only the fields it sets are written.
EditCommit(s) ==
  /\ editing[s] # <<>>
  /\ cargo' = editing[s] @@ cargo
  /\ editing' = [editing EXCEPT ![s] = <<>>]
  /\ UNCHANGED <<edits, editsMet, ruleVars, rfqVars>>

(***************************************************************************)
(* Requests for a quote.                                                   *)
(***************************************************************************)
\* Screening and re-screening, which no request waits for.
Screen(status) ==
  /\ status # screening /\ screenings < MaxScreenings
  /\ screening' = status
  /\ screenings' = screenings + 1
  /\ UNCHANGED <<stage, checked, captured, quotes, answer, quoteFaults, ruleVars, cargoVars>>

QuotesOf(m) == {q \in quotes : q.message = m}

Reply(d, what) ==
  /\ answer' = [answer EXCEPT ![d] = what]
  /\ stage' = [stage EXCEPT ![d] = "done"]

Advance(d, to) == stage' = [stage EXCEPT ![d] = to] /\ UNCHANGED answer

\* findQuoteBySourceRef.
ReplayCheck(d) ==
  /\ stage[d] = "new"
  /\ IF QuotesOf(MessageOf[d]) # {} THEN Reply(d, "DUPLICATE") ELSE Advance(d, "party")
  /\ UNCHANGED <<screening, screenings, checked, captured, quotes, quoteFaults, ruleVars,
                 cargoVars>>

\* Without looking at the screening status.
PartyUnchecked(d) ==
  /\ stage[d] = "party"
  /\ Advance(d, "capture")
  /\ checked' = [checked EXCEPT ![d] = screenings]
  /\ UNCHANGED <<screening, screenings, captured, quotes, quoteFaults, ruleVars, cargoVars>>

PartyCheck(d) ==
  /\ stage[d] = "party"
  /\ IF screening # "CLEAR" THEN Reply(d, "NEEDS_SCREENING_REVIEW") ELSE Advance(d, "capture")
  /\ checked' = [checked EXCEPT ![d] = screenings]
  /\ UNCHANGED <<screening, screenings, captured, quotes, quoteFaults, ruleVars, cargoVars>>

\* issueQuote stores the consignment in a transaction of its own.
Capture(d) ==
  /\ stage[d] = "capture"
  /\ captured' = captured \cup {d}
  /\ Advance(d, "price")
  /\ UNCHANGED <<screening, screenings, checked, quotes, quoteFaults, ruleVars, cargoVars>>

Price(d) ==
  /\ stage[d] = "price"
  /\ IF Pricing(Request, Cards, rules) = "QUOTED" THEN Advance(d, "store") ELSE Reply(d, "NO_RATE")
  /\ UNCHANGED <<screening, screenings, checked, captured, quotes, quoteFaults, ruleVars,
                 cargoVars>>

Stored(d) ==
  quotes \cup {[message |-> MessageOf[d], by |-> d, status |-> screening,
                committed |-> screenings]}

\* Without the message's id on the event.
StoreUnkeyed(d) ==
  /\ stage[d] = "store"
  /\ Reply(d, "QUOTED") /\ quotes' = Stored(d)
  /\ UNCHANGED <<screening, screenings, checked, captured, quoteFaults, ruleVars, cargoVars>>

\* The quote, its lines and quote.issued in one transaction; the event's
\* (type, source_ref) is unique, and its violation is an error like any other.
Store(d) ==
  /\ stage[d] = "store"
  /\ IF QuotesOf(MessageOf[d]) # {}
       THEN Reply(d, "NO_RATE") /\ UNCHANGED quotes
       ELSE Reply(d, "QUOTED") /\ quotes' = Stored(d)
  /\ UNCHANGED <<screening, screenings, checked, captured, quoteFaults, ruleVars, cargoVars>>

\* The database fails: an error of issueQuote is answered NO_RATE, one before
\* it is the server's.
QuoteFault(d) ==
  /\ stage[d] # "done" /\ quoteFaults < MaxQuoteFaults
  /\ Reply(d, IF stage[d] \in {"new", "party"} THEN "ERROR" ELSE "NO_RATE")
  /\ quoteFaults' = quoteFaults + 1
  /\ UNCHANGED <<screening, screenings, checked, captured, quotes, ruleVars, cargoVars>>

RuleNext ==
  \/ \E origin \in {Null, Lane} : CreateMarginRule(origin)
  \/ \E r \in rules, origin \in {Null, Lane} : UpdateMarginRule(r, origin)
  \/ \E s \in Staff : DeleteCommit(s) \/ \E r \in rules : DeleteRead(s, r)

CargoNext ==
  \E s \in Staff : EditCommit(s) \/ \E e \in Corrections : EditRead(s, e)

RfqNext ==
  \/ \E status \in {"CLEAR", "REVIEW"} : Screen(status)
  \/ \E d \in Deliveries :
       ReplayCheck(d) \/ PartyCheck(d) \/ Capture(d) \/ Price(d) \/ Store(d) \/ QuoteFault(d)

QuotingNext == RuleNext \/ CargoNext \/ RfqNext

QuotingSpec == QuotingInit /\ [][QuotingNext]_quotingVars

(***************************************************************************)
(* The properties.                                                         *)
(***************************************************************************)
\* A tenant is left without a catch-all rule, and lanes without a price, only
\* by narrowing one or by two deletions that each counted on the rule of the
\* other (deleteMarginRule reads the rules, then deletes).
LanesQuotable ==
  (\E r \in rules : CatchAll(r)) \/ narrowed \/ deletesMet

\* Cargo that may not move is stored only by two corrections that each passed
\* against the row the other had not written yet (update merges a correction
\* with the row it read, and writes the fields it was sent).
DeclaredUnlessRaced ==
  Blocked(cargo.cargo, cargo.papers, cargo.range) => editsMet

\* However often and however simultaneously a message is delivered, it is
\* quoted once ("A redelivered message does not produce a second quote").
OneQuotePerMessage == \A q, r \in quotes : q.message = r.message => q = r

\* A sender under review is quoted only if the review began after the request
\* was checked, and only a checked sender is quoted at all.
QuotedIfCleared ==
  \A q \in quotes : q.status # "CLEAR" => checked[q.by] < q.committed

\* While a catch-all rule is left and nothing fails, a request is answered that
\* there is no rate only because another delivery of it has been quoted (the
\* unique index's error is answered like one of pricing).
NoRateOnlyByRival ==
  \A d \in Deliveries :
    answer[d] = "NO_RATE" =>
      narrowed \/ deletesMet \/ quoteFaults > 0 \/ QuotesOf(MessageOf[d]) # {}

\* What a request is answered is justified by what it met: quoted after a check
\* that passed, or refused because there is no price or another was quoted.
AnswerJustified == QuotedIfCleared /\ NoRateOnlyByRival
=============================================================================
