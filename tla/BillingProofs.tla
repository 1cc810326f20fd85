---------------------------- MODULE BillingProofs ----------------------------
(***************************************************************************)
(* Proofs about quoting, invoicing and the audit of invoices, for any      *)
(* staff, clients, rules, corrections, messages, charges, currencies and   *)
(* people, and any number of calls and failures.                           *)
(*                                                                         *)
(* LanesQuotable needs what a deletion under way still counts on: as long  *)
(* as it is the only one and no rule is narrowed, a catch-all rule is left *)
(* that it is not about (RulesSound). DeclaredUnlessRaced needs the same   *)
(* of a correction: what it will write over the row has been checked       *)
(* (EditSound). AnswerJustified needs to know of a request under way that  *)
(* the sender was clear when it was checked, and of a stored quote that    *)
(* its delivery has ended (CheckSound).                                    *)
(*                                                                         *)
(* The numbers are gapless because the profile's lock makes the number a   *)
(* transaction has drawn the next one until it commits (Numbering).        *)
(* BilledTwiceOnlyByOverlap needs the charges a call still holds: one that *)
(* is billed meanwhile was billed by an overlapping call (HeldSound).      *)
(*                                                                         *)
(* Of the audit of an issued invoice, what its stored findings promise is  *)
(* proved whatever its rules compute: FindingsStand needs only that a      *)
(* decision is about a stored finding and never reopens it (TableSound).   *)
(* HeldToItsQuote is about the rules themselves: it rests on what each of  *)
(* them finds (VarianceFound, OwnFaultFound), where a contract's price     *)
(* comes from (ContractedBy), where a charge does (BilledLines), and that  *)
(* it holds as well of what an audit has not stored yet (QuoteInv). That   *)
(* documents foot is arithmetic: sums in parts, one for each category, of  *)
(* which the nth one used is reached once (NthPlace, PlaceIsNth).          *)
(*                                                                         *)
(* Of what is quoted, that one rule and one card win (RuleResolved,        *)
(* CardChosen), and that no line is sold at a loss (LineSold): the margin  *)
(* comes last, and none of its steps takes off what was bought.            *)
(***************************************************************************)
EXTENDS Quoting, Invoicing, InvoiceAudit, Sums, SequenceTheorems, TLAPS

-----------------------------------------------------------------------------
(* Quoting.                                                                *)

USE QuotingAssumption

Stages == {"new", "party", "capture", "price", "store", "done"}
Answers == {"none", "DUPLICATE", "NEEDS_SCREENING_REVIEW", "NO_RATE", "QUOTED", "ERROR"}

RulesTypeOK ==
  /\ rules \subseteq MarginRule
  /\ created \in 1 .. MaxRules
  /\ deleting \in [Staff -> Nat]
  /\ narrowed \in BOOLEAN /\ deletesMet \in BOOLEAN

CargoTypeOK ==
  /\ editing \in [Staff -> Corrections \cup {<<>>}]
  /\ edits \in 0 .. MaxEdits
  /\ editsMet \in BOOLEAN

RfqTypeOK ==
  /\ screening \in {"CLEAR", "REVIEW"} /\ screenings \in 0 .. MaxScreenings
  /\ stage \in [Deliveries -> Stages]
  /\ checked \in [Deliveries -> 0 .. MaxScreenings]
  /\ captured \subseteq Deliveries
  /\ \A q \in quotes :
       /\ q.by \in Deliveries /\ q.message = MessageOf[q.by]
       /\ q.status \in {"CLEAR", "REVIEW"} /\ q.committed \in 0 .. MaxScreenings
  /\ answer \in [Deliveries -> Answers]
  /\ quoteFaults \in 0 .. MaxQuoteFaults

QuotingTypeOK == RulesTypeOK /\ CargoTypeOK /\ RfqTypeOK

\* Rules are told apart by when they were created.
RulesDistinct ==
  /\ \A r \in rules : r.created <= created
  /\ \A r, q \in rules : r.created = q.created => r = q

\* One deletion at a time, of which a catch-all rule is left.
Unhindered ==
  /\ \E r \in rules : CatchAll(r)
  /\ \A s \in Staff : deleting[s] # 0 =>
       /\ \A t \in Staff : deleting[t] # 0 => t = s
       /\ \E r \in rules : CatchAll(r) /\ r.created # deleting[s]

RulesSound == narrowed \/ deletesMet \/ Unhindered

RulesInv == RulesTypeOK /\ RulesDistinct /\ RulesSound

\* One correction at a time, and what it makes of the row may move.
EditSound ==
  ~editsMet =>
    /\ ~Blocked(cargo.cargo, cargo.papers, cargo.range)
    /\ \A s, t \in Staff : editing[s] # <<>> /\ editing[t] # <<>> => s = t
    /\ \A s \in Staff : editing[s] # <<>> =>
         ~Blocked(Merged(editing[s]).cargo, Merged(editing[s]).papers, Merged(editing[s]).range)

CargoInv == CargoTypeOK /\ EditSound

\* A delivery past the check met a clear sender, or the review came after it.
CheckSound ==
  /\ \A d \in Deliveries : checked[d] <= screenings
  /\ \A d \in Deliveries :
       stage[d] \in {"capture", "price", "store"} /\ screening # "CLEAR" =>
         checked[d] < screenings
  /\ \A q \in quotes : stage[q.by] = "done"

RfqInv == RfqTypeOK /\ CheckSound /\ OneQuotePerMessage /\ QuotedIfCleared

-----------------------------------------------------------------------------
(* Margin rules.                                                           *)

LEMMA RulesInitially == QuotingInit => RulesInv
<1> SUFFICES ASSUME QuotingInit PROVE RulesInv
  OBVIOUS
<1>1. /\ Rule(1, Null) \in MarginRule /\ Rule(1, Null).created = 1
      /\ CatchAll(Rule(1, Null))
  BY DEF CatchAll
<1>2. RulesTypeOK
  <2>1. 1 \in 1 .. MaxRules
    OBVIOUS
  <2> QED BY <1>1, <2>1 DEF QuotingInit, RulesTypeOK
<1>3. RulesDistinct
  BY <1>1 DEF QuotingInit, RulesDistinct
<1>4. Unhindered
  BY <1>1 DEF QuotingInit, Unhindered
<1> QED BY <1>2, <1>3, <1>4 DEF RulesInv, RulesSound

LEMMA RulesUndisturbed ==
  RulesInv /\ UNCHANGED ruleVars => RulesInv'
BY DEF RulesInv, RulesTypeOK, RulesDistinct, RulesSound, Unhindered, ruleVars, CatchAll

LEMMA RulesStep ==
  ASSUME RulesInv, [QuotingNext]_quotingVars
  PROVE  RulesInv'
<1> USE DEF RulesInv
<1>1. ASSUME NEW origin \in {Null, Lane}, CreateMarginRule(origin) PROVE RulesInv'
  <2> DEFINE rule == Rule(created + 1, origin)
  <2>1. created + 1 \in 1 .. MaxRules
    BY <1>1 DEF CreateMarginRule, RulesTypeOK
  <2>2. rule \in MarginRule /\ rule.created = created + 1
    BY <1>1, <2>1
  <2>3. rules' = rules \cup {rule} /\ created' = created + 1
        /\ UNCHANGED <<deleting, narrowed, deletesMet>>
    BY <1>1, Zenon DEF CreateMarginRule
  <2> HIDE DEF rule
  <2>4. RulesTypeOK'
    BY <2>1, <2>2, <2>3 DEF RulesTypeOK
  <2>5. RulesDistinct'
    BY <2>2, <2>3 DEF RulesDistinct, RulesTypeOK, MarginRule
  <2>6. RulesSound'
    BY <2>3 DEF RulesSound, Unhindered, CatchAll
  <2> QED BY <2>4, <2>5, <2>6
<1>2. ASSUME NEW r \in rules, NEW origin \in {Null, Lane}, UpdateMarginRule(r, origin)
      PROVE  RulesInv'
  <2> DEFINE rule == [r EXCEPT !.origin = origin]
  <2>1. rule \in MarginRule /\ rule.created = r.created
    <3>1. r \in MarginRule
      BY DEF RulesTypeOK
    <3> QED BY <3>1 DEF MarginRule
  <2>2. rules' = (rules \ {r}) \cup {rule} /\ narrowed' = (narrowed \/ CatchAll(r))
        /\ UNCHANGED <<created, deleting, deletesMet>>
    BY <1>2, Zenon DEF UpdateMarginRule
  <2> HIDE DEF rule
  <2>3. RulesTypeOK'
    BY <2>1, <2>2 DEF RulesTypeOK, CatchAll
  <2>4. RulesDistinct'
    BY <2>1, <2>2 DEF RulesDistinct
  <2>5. RulesSound'
    <3>1. \A q \in rules : CatchAll(q) /\ q # r => q \in rules'
      BY <2>2
    <3>2. narrowed' \/ deletesMet' \/ (Unhindered /\ ~CatchAll(r))
      BY <2>2 DEF RulesSound
    <3> QED BY <2>2, <3>1, <3>2 DEF RulesSound, Unhindered
  <2> QED BY <2>3, <2>4, <2>5
<1>3. ASSUME NEW s \in Staff, NEW r \in rules, DeleteRead(s, r) PROVE RulesInv'
  <2>1. r.created \in Nat
    BY DEF RulesTypeOK, MarginRule
  <2>2. deleting' = [deleting EXCEPT ![s] = r.created]
        /\ deletesMet' = (deletesMet \/ \E t \in Staff : deleting[t] # 0)
        /\ MayDelete(r) /\ UNCHANGED <<rules, created, narrowed>>
    BY <1>3, Zenon DEF DeleteRead
  <2>3. RulesTypeOK'
    BY <2>1, <2>2 DEF RulesTypeOK
  <2>4. RulesDistinct'
    BY <2>2 DEF RulesDistinct
  <2>5. RulesSound'
    <3>1. SUFFICES ASSUME ~narrowed, ~deletesMet, \A t \in Staff : deleting[t] = 0
                   PROVE  Unhindered'
      BY <2>2 DEF RulesSound
    <3>2. PICK q \in rules : CatchAll(q) /\ q # r
      BY <2>2, <3>1 DEF MayDelete, RulesSound, Unhindered
    <3>3. q.created # r.created
      BY <3>2 DEF RulesDistinct
    <3>4. \A t \in Staff : deleting'[t] # 0 => t = s /\ deleting'[t] = r.created
      BY <2>2, <3>1 DEF RulesTypeOK
    <3> QED BY <2>2, <3>2, <3>3, <3>4 DEF Unhindered
  <2> QED BY <2>3, <2>4, <2>5
<1>4. ASSUME NEW s \in Staff, DeleteCommit(s) PROVE RulesInv'
  <2>1. rules' = {r \in rules : r.created # deleting[s]}
        /\ deleting' = [deleting EXCEPT ![s] = 0] /\ deleting[s] # 0
        /\ UNCHANGED <<created, narrowed, deletesMet>>
    BY <1>4, Zenon DEF DeleteCommit
  <2>2. RulesTypeOK'
    BY <2>1 DEF RulesTypeOK
  <2>3. RulesDistinct'
    BY <2>1 DEF RulesDistinct
  <2>4. RulesSound'
    <3>1. SUFFICES ASSUME Unhindered PROVE Unhindered'
      BY <2>1 DEF RulesSound
    <3>2. \A t \in Staff : deleting'[t] = 0
      BY <2>1, <3>1 DEF Unhindered, RulesTypeOK
    <3>3. PICK q \in rules : CatchAll(q) /\ q.created # deleting[s]
      BY <2>1, <3>1 DEF Unhindered
    <3> QED BY <2>1, <3>2, <3>3 DEF Unhindered
  <2> QED BY <2>2, <2>3, <2>4
<1>5. CASE RuleNext
  BY <1>1, <1>2, <1>3, <1>4, <1>5 DEF RuleNext
<1>6. CASE CargoNext
  BY <1>6, RulesUndisturbed DEF CargoNext, EditCommit, EditRead
<1>7. CASE RfqNext
  <2>1. UNCHANGED ruleVars
    BY <1>7 DEF RfqNext, Screen, ReplayCheck, PartyCheck, Capture, Price, Store, QuoteFault
  <2> QED BY <2>1, RulesUndisturbed
<1>8. CASE UNCHANGED quotingVars
  BY <1>8, RulesUndisturbed DEF quotingVars
<1> QED BY <1>5, <1>6, <1>7, <1>8 DEF QuotingNext

\* A tenant loses its last catch-all rule only by narrowing one or by two deletions
\* that were under way at once, for any staff and rules: deleteMarginRule reads the
\* rules and deletes in a later statement.
THEOREM LanesStayQuotable == QuotingSpec => []LanesQuotable
<1>1. RulesInv => LanesQuotable
  BY DEF RulesInv, RulesSound, Unhindered, LanesQuotable
<1> QED BY <1>1, RulesInitially, RulesStep, PTL DEF QuotingSpec

-----------------------------------------------------------------------------
(* Corrections.                                                            *)

LEMMA CargoInitially == QuotingInit => CargoInv
<1> SUFFICES ASSUME QuotingInit PROVE CargoInv
  OBVIOUS
<1>1. /\ cargo.cargo = "GENERAL" /\ editing = [s \in Staff |-> <<>>]
      /\ edits = 0 /\ editsMet = FALSE
  BY DEF QuotingInit
<1>2. CargoTypeOK
  <2>1. MaxEdits \in Nat
    OBVIOUS
  <2>2. editing \in [Staff -> Corrections \cup {<<>>}]
    BY <1>1, Zenon
  <2>3. edits \in 0 .. MaxEdits
    BY <1>1, <2>1
  <2> QED BY <1>1, <2>2, <2>3, Zenon DEF CargoTypeOK
<1>3. EditSound
  BY <1>1 DEF EditSound, Blocked
<1> QED BY <1>2, <1>3 DEF CargoInv

LEMMA CargoUndisturbed == CargoInv /\ UNCHANGED cargoVars => CargoInv'
<1> SUFFICES ASSUME CargoInv, UNCHANGED cargoVars PROVE CargoInv'
  OBVIOUS
<1>1. UNCHANGED <<cargo, editing, edits, editsMet>>
  BY DEF cargoVars
<1> QED BY <1>1 DEF CargoInv, CargoTypeOK, EditSound, Blocked, Merged

LEMMA CargoStep ==
  ASSUME CargoInv, [QuotingNext]_quotingVars
  PROVE  CargoInv'
<1> USE DEF CargoInv
<1>1. ASSUME NEW s \in Staff, NEW e \in Corrections, EditRead(s, e) PROVE CargoInv'
  <2>1. /\ editing[s] = <<>> /\ edits < MaxEdits
        /\ ~Blocked(Merged(e).cargo, Merged(e).papers, Merged(e).range)
        /\ editing' = [editing EXCEPT ![s] = e] /\ edits' = edits + 1
        /\ editsMet' = (editsMet \/ \E t \in Staff : editing[t] # <<>>)
        /\ cargo' = cargo
    BY <1>1, Zenon DEF EditRead
  <2>2. CargoTypeOK'
    BY <2>1 DEF CargoTypeOK
  <2>3. EditSound'
    <3>1. SUFFICES ASSUME ~editsMet, \A t \in Staff : editing[t] = <<>>
                   PROVE  EditSound'
      BY <2>1 DEF EditSound
    <3>2. \A t \in Staff : editing'[t] # <<>> => t = s /\ editing'[t] = e
      BY <2>1, <3>1 DEF CargoTypeOK
    <3>3. Merged(e)' = Merged(e)
      BY <2>1 DEF Merged
    <3>4. \A t \in Staff : editing'[t] # <<>> => Merged(editing[t])' = Merged(e)
      BY <3>2, <3>3 DEF Merged
    <3> QED BY <2>1, <3>1, <3>2, <3>4 DEF EditSound, Blocked
  <2> QED BY <2>2, <2>3
<1>2. ASSUME NEW s \in Staff, EditCommit(s) PROVE CargoInv'
  <2>1. /\ editing[s] # <<>> /\ cargo' = Merged(editing[s])
        /\ editing' = [editing EXCEPT ![s] = <<>>] /\ UNCHANGED <<edits, editsMet>>
    BY <1>2, Zenon DEF EditCommit, Merged
  <2>2. CargoTypeOK'
    BY <2>1 DEF CargoTypeOK
  <2>3. EditSound'
    <3>1. SUFFICES ASSUME ~editsMet PROVE EditSound'
      BY <2>1 DEF EditSound
    <3>2. \A t \in Staff : editing'[t] = <<>>
      BY <2>1, <3>1 DEF EditSound, CargoTypeOK
    <3>3. ~Blocked(cargo'.cargo, cargo'.papers, cargo'.range)
      BY <2>1, <3>1 DEF EditSound
    <3> QED BY <3>2, <3>3 DEF EditSound, Blocked
  <2> QED BY <2>2, <2>3
<1>3. CASE CargoNext
  BY <1>1, <1>2, <1>3 DEF CargoNext
<1>4. CASE RuleNext
  BY <1>4, CargoUndisturbed
  DEF RuleNext, CreateMarginRule, UpdateMarginRule, DeleteRead, DeleteCommit
<1>5. CASE RfqNext
  <2>1. UNCHANGED cargoVars
    BY <1>5 DEF RfqNext, Screen, ReplayCheck, PartyCheck, Capture, Price, Store, QuoteFault
  <2> QED BY <2>1, CargoUndisturbed
<1>6. CASE UNCHANGED quotingVars
  BY <1>6, CargoUndisturbed DEF quotingVars
<1> QED BY <1>3, <1>4, <1>5, <1>6 DEF QuotingNext

\* Cargo that may not move is stored only by corrections that were under way at
\* once, whatever staff send and however often: each is checked merged with the row
\* it read, and written over the row as it then is.
THEOREM DeclaredUnlessCrossed == QuotingSpec => []DeclaredUnlessRaced
<1>1. CargoInv => DeclaredUnlessRaced
  BY DEF CargoInv, EditSound, DeclaredUnlessRaced
<1> QED BY <1>1, CargoInitially, CargoStep, PTL DEF QuotingSpec

-----------------------------------------------------------------------------
(* Requests for a quote.                                                   *)

LEMMA RfqInitially == QuotingInit => RfqInv
<1> SUFFICES ASSUME QuotingInit PROVE RfqInv
  OBVIOUS
<1>1. MaxScreenings \in Nat /\ MaxQuoteFaults \in Nat
  OBVIOUS
<1>2. RfqTypeOK
  BY <1>1 DEF QuotingInit, RfqTypeOK, Stages, Answers
<1>3. CheckSound /\ OneQuotePerMessage /\ QuotedIfCleared
  BY <1>1 DEF QuotingInit, CheckSound, OneQuotePerMessage, QuotedIfCleared
<1> QED BY <1>2, <1>3 DEF RfqInv

LEMMA RfqUndisturbed == RfqInv /\ UNCHANGED rfqVars => RfqInv'
<1> SUFFICES ASSUME RfqInv, UNCHANGED rfqVars PROVE RfqInv'
  OBVIOUS
<1>1. UNCHANGED <<screening, screenings, stage, checked, captured, quotes, answer, quoteFaults>>
  BY DEF rfqVars
<1> QED
  BY <1>1 DEF RfqInv, RfqTypeOK, CheckSound, OneQuotePerMessage, QuotedIfCleared

\* A delivery moves to another stage, and may be answered: nothing is stored.
LEMMA RfqMoves ==
  ASSUME RfqInv, NEW d \in Deliveries, NEW to \in Stages, NEW what \in Answers,
         stage' = [stage EXCEPT ![d] = to],
         answer' = answer \/ answer' = [answer EXCEPT ![d] = what],
         to # "done" => stage[d] # "done",
         to \in {"price", "store"} => stage[d] \in {"capture", "price"},
         to # "capture",
         captured' \subseteq Deliveries, quoteFaults' \in 0 .. MaxQuoteFaults,
         UNCHANGED <<screening, screenings, checked, quotes>>
  PROVE  RfqInv'
<1>1. RfqTypeOK'
  BY DEF RfqInv, RfqTypeOK
<1>2. /\ \A e \in Deliveries : stage'[e] = IF e = d THEN to ELSE stage[e]
      /\ \A q \in quotes : q.by \in Deliveries
  BY DEF RfqInv, RfqTypeOK
<1>3. CheckSound'
  BY <1>2 DEF RfqInv, CheckSound
<1>4. OneQuotePerMessage' /\ QuotedIfCleared'
  BY DEF RfqInv, OneQuotePerMessage, QuotedIfCleared
<1> QED BY <1>1, <1>3, <1>4 DEF RfqInv

LEMMA RfqStep ==
  ASSUME RfqInv, [QuotingNext]_quotingVars
  PROVE  RfqInv'
<1>1. ASSUME NEW status \in {"CLEAR", "REVIEW"}, Screen(status) PROVE RfqInv'
  <2>1. /\ screening' = status /\ screenings < MaxScreenings /\ screenings' = screenings + 1
        /\ UNCHANGED <<stage, checked, captured, quotes, answer, quoteFaults>>
    BY <1>1, Zenon DEF Screen
  <2>2. screenings \in 0 .. MaxScreenings /\ checked \in [Deliveries -> 0 .. MaxScreenings]
        /\ MaxScreenings \in Nat
    BY DEF RfqInv, RfqTypeOK
  <2>3. RfqTypeOK'
    BY <2>1, <2>2 DEF RfqInv, RfqTypeOK
  <2>4. \A d \in Deliveries : checked'[d] < screenings'
    BY <2>1, <2>2 DEF RfqInv, CheckSound
  <2>5. CheckSound'
    BY <2>1, <2>2, <2>4 DEF RfqInv, CheckSound
  <2>6. OneQuotePerMessage' /\ QuotedIfCleared'
    BY <2>1 DEF RfqInv, OneQuotePerMessage, QuotedIfCleared
  <2> QED BY <2>3, <2>5, <2>6 DEF RfqInv
<1>2. ASSUME NEW d \in Deliveries, ReplayCheck(d) PROVE RfqInv'
  <2>1. captured \subseteq Deliveries /\ quoteFaults \in 0 .. MaxQuoteFaults
    BY DEF RfqInv, RfqTypeOK
  <2>2. CASE QuotesOf(MessageOf[d]) # {}
    BY <1>2, <2>1, <2>2, RfqMoves, Zenon DEF ReplayCheck, Reply, Stages, Answers
  <2>3. CASE QuotesOf(MessageOf[d]) = {}
    BY <1>2, <2>1, <2>3, RfqMoves DEF ReplayCheck, Advance, Stages, Answers
  <2> QED BY <2>2, <2>3
<1>3. ASSUME NEW d \in Deliveries, PartyCheck(d) PROVE RfqInv'
  <2>1. /\ stage[d] = "party"
        /\ checked' = [checked EXCEPT ![d] = screenings]
        /\ UNCHANGED <<screening, screenings, captured, quotes, quoteFaults>>
    BY <1>3, Zenon DEF PartyCheck
  <2>2. PICK to \in Stages, what \in Answers :
           /\ stage' = [stage EXCEPT ![d] = to]
           /\ answer' = answer \/ answer' = [answer EXCEPT ![d] = what]
           /\ to = "done" \/ (to = "capture" /\ screening = "CLEAR")
    <3>1. CASE screening # "CLEAR"
      BY <1>3, <3>1 DEF PartyCheck, Reply, Stages, Answers
    <3>2. CASE screening = "CLEAR"
      BY <1>3, <3>2 DEF PartyCheck, Advance, Stages, Answers
    <3> QED BY <3>1, <3>2
  <2>3. RfqTypeOK'
    BY <2>1, <2>2 DEF RfqInv, RfqTypeOK
  <2>4. /\ \A e \in Deliveries : checked'[e] = IF e = d THEN screenings ELSE checked[e]
        /\ \A e \in Deliveries : stage'[e] = IF e = d THEN to ELSE stage[e]
        /\ \A q \in quotes : q.by \in Deliveries
    BY <2>1, <2>2 DEF RfqInv, RfqTypeOK
  <2>5. \A q \in quotes : q.by # d
    BY <2>1 DEF RfqInv, CheckSound
  <2>6. CheckSound'
    <3>1. screenings \in Nat
      BY DEF RfqInv, RfqTypeOK
    <3> QED BY <2>1, <2>2, <2>4, <2>5, <3>1 DEF RfqInv, CheckSound
  <2>7. OneQuotePerMessage' /\ QuotedIfCleared'
    BY <2>1, <2>4, <2>5 DEF RfqInv, OneQuotePerMessage, QuotedIfCleared
  <2> QED BY <2>3, <2>6, <2>7 DEF RfqInv
<1>4. ASSUME NEW d \in Deliveries, Capture(d) PROVE RfqInv'
  <2>1. captured' \subseteq Deliveries /\ quoteFaults' \in 0 .. MaxQuoteFaults
    BY <1>4 DEF RfqInv, RfqTypeOK, Capture
  <2> QED BY <1>4, <2>1, RfqMoves DEF Capture, Advance, Stages, Answers
<1>5. ASSUME NEW d \in Deliveries, Price(d) PROVE RfqInv'
  <2>1. captured \subseteq Deliveries /\ quoteFaults \in 0 .. MaxQuoteFaults
    BY DEF RfqInv, RfqTypeOK
  <2>2. CASE Pricing(Request, Cards, rules) = "QUOTED"
    BY <1>5, <2>1, <2>2, RfqMoves DEF Price, Advance, Stages, Answers
  <2>3. CASE Pricing(Request, Cards, rules) # "QUOTED"
    BY <1>5, <2>1, <2>3, RfqMoves DEF Price, Reply, Stages, Answers
  <2> QED BY <2>2, <2>3
<1>6. ASSUME NEW d \in Deliveries, Store(d) PROVE RfqInv'
  <2>1. captured \subseteq Deliveries /\ quoteFaults \in 0 .. MaxQuoteFaults
    BY DEF RfqInv, RfqTypeOK
  <2>2. CASE QuotesOf(MessageOf[d]) # {}
    BY <1>6, <2>1, <2>2, RfqMoves DEF Store, Reply, Stages, Answers
  <2>3. CASE QuotesOf(MessageOf[d]) = {}
    <3> DEFINE quote == [message |-> MessageOf[d], by |-> d, status |-> screening,
                         committed |-> screenings]
    <3>1. /\ stage[d] = "store" /\ stage' = [stage EXCEPT ![d] = "done"]
          /\ answer' = [answer EXCEPT ![d] = "QUOTED"]
          /\ quotes' = quotes \cup {quote}
          /\ UNCHANGED <<screening, screenings, checked, captured, quoteFaults>>
      BY <1>6, <2>3 DEF Store, Reply, Stored
    <3>2. /\ quote.message = MessageOf[d] /\ quote.by = d /\ quote.status = screening
          /\ quote.committed = screenings
      OBVIOUS
    <3> HIDE DEF quote
    <3>3. RfqTypeOK'
      <4>1. /\ stage' \in [Deliveries -> Stages] /\ answer' \in [Deliveries -> Answers]
        BY <3>1 DEF RfqInv, RfqTypeOK, Stages, Answers
      <4> QED BY <3>1, <3>2, <4>1 DEF RfqInv, RfqTypeOK
    <3>4. /\ \A e \in Deliveries : stage'[e] = IF e = d THEN "done" ELSE stage[e]
          /\ \A q \in quotes : q.by \in Deliveries
      BY <3>1 DEF RfqInv, RfqTypeOK
    <3>5. CheckSound'
      BY <3>1, <3>2, <3>4 DEF RfqInv, CheckSound
    <3>6. OneQuotePerMessage'
      BY <2>3, <3>1, <3>2 DEF RfqInv, OneQuotePerMessage, QuotesOf
    <3>7. QuotedIfCleared'
      BY <3>1, <3>2 DEF RfqInv, QuotedIfCleared, CheckSound
    <3> QED BY <3>3, <3>5, <3>6, <3>7 DEF RfqInv
  <2> QED BY <2>2, <2>3
<1>7. ASSUME NEW d \in Deliveries, QuoteFault(d) PROVE RfqInv'
  <2>1. captured \subseteq Deliveries /\ quoteFaults' \in 0 .. MaxQuoteFaults
    BY <1>7 DEF RfqInv, RfqTypeOK, QuoteFault
  <2>2. PICK what \in Answers : answer' = [answer EXCEPT ![d] = what]
    BY <1>7 DEF QuoteFault, Reply, Answers
  <2> QED BY <1>7, <2>1, <2>2, RfqMoves DEF QuoteFault, Reply, Stages
<1>8. CASE RfqNext
  BY <1>1, <1>2, <1>3, <1>4, <1>5, <1>6, <1>7, <1>8 DEF RfqNext
<1>9. CASE RuleNext
  BY <1>9, RfqUndisturbed
  DEF RuleNext, CreateMarginRule, UpdateMarginRule, DeleteRead, DeleteCommit
<1>10. CASE CargoNext
  BY <1>10, RfqUndisturbed DEF CargoNext, EditRead, EditCommit
<1>11. CASE UNCHANGED quotingVars
  BY <1>11, RfqUndisturbed DEF quotingVars
<1> QED BY <1>8, <1>9, <1>10, <1>11 DEF QuotingNext

\* However often, and however simultaneously, a message is delivered, one quote is
\* stored for it: the index on the event's source_ref, of which issueQuote's
\* transaction is part.
THEOREM QuotedOnce == QuotingSpec => []OneQuotePerMessage
<1>1. RfqInv => OneQuotePerMessage
  BY DEF RfqInv
<1> QED BY <1>1, RfqInitially, RfqStep, PTL DEF QuotingSpec

\* The types of the three, in one.
THEOREM QuotingTypeCorrect == QuotingSpec => []QuotingTypeOK
<1>1. RulesInv /\ CargoInv /\ RfqInv => QuotingTypeOK
  BY DEF RulesInv, CargoInv, RfqInv, QuotingTypeOK
<1> QED
  BY <1>1, RulesInitially, RulesStep, CargoInitially, CargoStep, RfqInitially, RfqStep, PTL
  DEF QuotingSpec

-----------------------------------------------------------------------------
(* What a request is answered.                                             *)

\* The price of what the messages ask for depends on the rules alone.
Priceable == InTime(Cards, Request) # {}

AnswerInv == RulesInv /\ RfqInv /\ NoRateOnlyByRival

\* A rule for everything applies to every request.
LEMMA CatchAllPrices ==
  ASSUME Priceable, NEW r \in rules, CatchAll(r)
  PROVE  Pricing(Request, Cards, rules) = "QUOTED"
<1>1. Eligible(Cards, Request) # {}
  BY DEF Priceable, InTime
<1>2. r \in Applicable(rules, Request)
  BY DEF Applicable, RuleApplies, CatchAll
<1> QED BY <1>1, <1>2 DEF Pricing, Priceable

\* What excuses an answer of no rate excuses it for good.
Excused(d) ==
  narrowed \/ deletesMet \/ quoteFaults > 0 \/ QuotesOf(MessageOf[d]) # {}

LEMMA AnswerKept ==
  ASSUME NoRateOnlyByRival, \A d \in Deliveries : Excused(d) => Excused(d)',
         \A d \in Deliveries : answer'[d] = "NO_RATE" => answer[d] = "NO_RATE" \/ Excused(d)'
  PROVE  NoRateOnlyByRival'
BY DEF NoRateOnlyByRival, Excused

LEMMA AnswerStep ==
  ASSUME Priceable, AnswerInv, [QuotingNext]_quotingVars
  PROVE  NoRateOnlyByRival'
<1> USE DEF AnswerInv
<1>1. quoteFaults \in Nat /\ answer \in [Deliveries -> Answers]
  BY DEF RfqInv, RfqTypeOK
<1>2. CASE RuleNext
  <2>1. UNCHANGED rfqVars
    BY <1>2 DEF RuleNext, CreateMarginRule, UpdateMarginRule, DeleteRead, DeleteCommit
  <2>2. (narrowed => narrowed') /\ (deletesMet => deletesMet')
    <3>1. ASSUME NEW origin, CreateMarginRule(origin) PROVE UNCHANGED <<narrowed, deletesMet>>
      BY <3>1 DEF CreateMarginRule
    <3>2. ASSUME NEW r \in rules, NEW origin, UpdateMarginRule(r, origin)
          PROVE  (narrowed => narrowed') /\ deletesMet' = deletesMet
      BY <3>2, Zenon DEF UpdateMarginRule
    <3>3. ASSUME NEW s \in Staff, NEW r \in rules, DeleteRead(s, r)
          PROVE  (deletesMet => deletesMet') /\ narrowed' = narrowed
      BY <3>3, Zenon DEF DeleteRead
    <3>4. ASSUME NEW s \in Staff, DeleteCommit(s) PROVE UNCHANGED <<narrowed, deletesMet>>
      BY <3>4 DEF DeleteCommit
    <3> QED BY <1>2, <3>1, <3>2, <3>3, <3>4, Zenon DEF RuleNext
  <2> QED BY <2>1, <2>2, AnswerKept DEF rfqVars, Excused, QuotesOf
<1>3. CASE CargoNext \/ UNCHANGED quotingVars
  <2>1. UNCHANGED <<ruleVars, rfqVars>>
    BY <1>3 DEF CargoNext, EditRead, EditCommit, quotingVars
  <2> QED BY <2>1, AnswerKept DEF ruleVars, rfqVars, Excused, QuotesOf
<1>4. CASE RfqNext
  <2>1. UNCHANGED <<narrowed, deletesMet>>
    BY <1>4 DEF RfqNext, Screen, ReplayCheck, PartyCheck, Capture, Price, Store, QuoteFault,
                ruleVars
  <2>2. quotes \subseteq quotes' /\ (quoteFaults > 0 => quoteFaults' > 0)
    BY <1>1, <1>4
    DEF RfqNext, Screen, ReplayCheck, PartyCheck, Capture, Price, Store, QuoteFault, Stored
  <2>3. \A d \in Deliveries : Excused(d) => Excused(d)'
    BY <2>1, <2>2 DEF Excused, QuotesOf
  <2>4. ASSUME NEW d \in Deliveries, answer'[d] = "NO_RATE", answer[d] # "NO_RATE"
        PROVE  Excused(d)'
    <3>1. ASSUME NEW e \in Deliveries, Price(e) PROVE Excused(d)'
      <4>1. d = e /\ Pricing(Request, Cards, rules) # "QUOTED"
        BY <1>1, <2>4, <3>1 DEF Price, Reply, Advance
      <4>2. ~Unhindered
        BY <4>1, CatchAllPrices DEF Unhindered
      <4> QED BY <2>1, <4>2 DEF RulesInv, RulesSound, Excused
    <3>2. ASSUME NEW e \in Deliveries, Store(e) PROVE Excused(d)'
      <4>1. d = e /\ QuotesOf(MessageOf[e]) # {}
        BY <1>1, <2>4, <3>2 DEF Store, Reply
      <4> QED BY <2>2, <4>1 DEF Excused, QuotesOf
    <3>3. ASSUME NEW e \in Deliveries, QuoteFault(e) PROVE Excused(d)'
      BY <1>1, <3>3 DEF QuoteFault, Excused
    <3>4. ASSUME NEW e \in Deliveries, ReplayCheck(e) \/ PartyCheck(e) \/ Capture(e)
          PROVE  FALSE
      BY <1>1, <2>4, <3>4 DEF ReplayCheck, PartyCheck, Capture, Reply, Advance
    <3>5. ASSUME NEW status, Screen(status) PROVE FALSE
      BY <2>4, <3>5 DEF Screen
    <3> QED BY <1>4, <3>1, <3>2, <3>3, <3>4, <3>5 DEF RfqNext
  <2> QED BY <2>3, <2>4, AnswerKept
<1> QED BY <1>2, <1>3, <1>4 DEF QuotingNext

\* A sender under review is quoted only if the review came after the check, whatever
\* is asked at once and wherever it fails.
THEOREM QuotedAfterCheck == QuotingSpec => []QuotedIfCleared
<1>1. RfqInv => QuotedIfCleared
  BY DEF RfqInv
<1> QED BY <1>1, RfqInitially, RfqStep, PTL DEF QuotingSpec

\* Where a card in time is on file, what a request is answered is justified: quoted
\* after a check that passed, or told there is no rate because the rules were lost in
\* a way LanesQuotable allows, something failed, or another delivery was quoted.
THEOREM AnswersJustified ==
  ASSUME Priceable
  PROVE  QuotingSpec => []AnswerJustified
<1>1. QuotingInit => AnswerInv
  <2>1. QuotingInit => NoRateOnlyByRival
    BY DEF QuotingInit, NoRateOnlyByRival
  <2> QED BY <2>1, RulesInitially, RfqInitially DEF AnswerInv
<1>2. AnswerInv /\ [QuotingNext]_quotingVars => AnswerInv'
  BY AnswerStep, RulesStep, RfqStep DEF AnswerInv
<1>3. AnswerInv => AnswerJustified
  BY DEF AnswerInv, RfqInv, AnswerJustified
<1> QED BY <1>1, <1>2, <1>3, PTL DEF QuotingSpec

-----------------------------------------------------------------------------
(* Invoicing.                                                              *)

HIDE QuotingAssumption

USE InvoicingAssumption

\* The series stands just past the last invoice, a transaction that has drawn a
\* number holds the lock, and that number is the one the series stands at.
Numbering ==
  /\ next = 0 => invoices = <<>>
  /\ next # 0 => next = Len(invoices) + 1
  /\ \A c \in Clients : pc[c] \in {"draw", "issue"} => next # 0
  /\ \A c \in Clients : pc[c] = "issue" <=> locked = c
  /\ \A c \in Clients : pc[c] = "issue" => number[c] = next

\* Calls that were under way at the same time.
Overlapped(k, l) == <<k, l>> \in overlap \/ <<l, k>> \in overlap

\* Two calls under way at the same time are recorded as such.
OverlapSound ==
  /\ \A c \in Clients : pc[c] # "idle" => call[c] # 0
  /\ \A c, d \in Clients :
       c # d /\ pc[c] # "idle" /\ pc[d] # "idle" => Overlapped(call[c], call[d])

\* What a call has read and not billed is billed by overlapping calls only.
HeldSound ==
  /\ \A c \in Clients : pc[c] = "issue" => group[c] \subseteq todo[c]
  /\ \A c \in Clients : pc[c] \notin {"idle", "charges"} =>
       \A i \in DOMAIN invoices :
         invoices[i].lines \cap todo[c] # {} => Overlapped(invoices[i].call, call[c])

NumberInv == TypeOK /\ OverlapSound /\ Numbering /\ NumbersGapless

BillingInv == /\ TypeOK /\ OverlapSound /\ HeldSound
              /\ ChargesReconcile /\ BilledTwiceOnlyByOverlap

-----------------------------------------------------------------------------
(* Types and numbers.                                                      *)

LEMMA Appended ==
  ASSUME NEW S, NEW s \in Seq(S), NEW e \in S
  PROVE  LET n == Len(s) + 1 IN
         /\ n \in Nat /\ n \notin DOMAIN s
         /\ Append(s, e) \in Seq(S) /\ Len(Append(s, e)) = n
         /\ DOMAIN Append(s, e) = (DOMAIN s) \cup {n}
         /\ \A i \in DOMAIN s : i \in Nat /\ 0 < i /\ i < n /\ Append(s, e)[i] = s[i]
         /\ Append(s, e)[n] = e
OBVIOUS

LEMMA InvoicingTypeInit == Init => TypeOK
BY DEF Init, TypeOK

LEMMA InvoicingTypeStep == TypeOK /\ OverlapSound /\ [Next]_vars => TypeOK'
<1> SUFFICES ASSUME TypeOK, OverlapSound, [Next]_vars PROVE TypeOK'
  OBVIOUS
<1> USE DEF TypeOK, At
<1>1. CASE Accrue
  BY <1>1 DEF Accrue
<1>2. ASSUME NEW c \in Clients, Start(c) PROVE TypeOK'
  <2>1. calls + 1 \in 1 .. MaxCalls
    BY <1>2 DEF Start
  <2>2. \A d \in Clients : pc[d] # "idle" => call[d] \in 1 .. MaxCalls
    BY DEF OverlapSound
  <2>3. overlap' \subseteq (1 .. MaxCalls) \X (1 .. MaxCalls)
    BY <1>2, <2>1, <2>2 DEF Start
  <2> QED
    BY <1>2, <2>1, <2>3 DEF Start
<1>3. ASSUME NEW c \in Clients, ReadCharges(c) PROVE TypeOK'
  BY <1>3 DEF ReadCharges, Unbilled
<1>4. ASSUME NEW c \in Clients, ReadProfile(c) PROVE TypeOK'
  BY <1>4 DEF ReadProfile
<1>5. ASSUME NEW c \in Clients, CreateProfile(c) PROVE TypeOK'
  BY <1>5 DEF CreateProfile
<1>6. ASSUME NEW c \in Clients, Draw(c) PROVE TypeOK'
  BY <1>6 DEF Draw
<1>7. ASSUME NEW c \in Clients, Issue(c) PROVE TypeOK'
  <2>1. Invoice(c) \in [number : Nat, call : 1 .. MaxCalls, lines : SUBSET Charges]
    BY <1>7 DEF Issue, Invoice, OverlapSound
  <2>2. invoices' \in Seq([number : Nat, call : 1 .. MaxCalls, lines : SUBSET Charges])
    BY <1>7, <2>1 DEF Issue
  <2>3. invoiceOf' \in [Charges -> Nat]
    BY <1>7 DEF Issue
  <2> QED
    BY <1>7, <2>2, <2>3 DEF Issue
<1>8. ASSUME NEW c \in Clients, Fail(c) PROVE TypeOK'
  BY <1>8 DEF Fail
<1>9. CASE UNCHANGED vars
  BY <1>9 DEF vars
<1> QED
  BY <1>1, <1>2, <1>3, <1>4, <1>5, <1>6, <1>7, <1>8, <1>9 DEF Next, CallStep

LEMMA NumberStep ==
  ASSUME TypeOK, TypeOK', OverlapSound, Numbering, NumbersGapless, [Next]_vars
  PROVE  Numbering' /\ NumbersGapless'
<1> USE DEF TypeOK, At, Numbering, NumbersGapless
<1>1. CASE Accrue
  BY <1>1 DEF Accrue
<1>2. ASSUME NEW c \in Clients, Start(c) PROVE Numbering' /\ NumbersGapless'
  BY <1>2 DEF Start
<1>3. ASSUME NEW c \in Clients, ReadCharges(c) PROVE Numbering' /\ NumbersGapless'
  BY <1>3 DEF ReadCharges
<1>4. ASSUME NEW c \in Clients, ReadProfile(c) PROVE Numbering' /\ NumbersGapless'
  BY <1>4 DEF ReadProfile
<1>5. ASSUME NEW c \in Clients, CreateProfile(c) PROVE Numbering' /\ NumbersGapless'
  BY <1>5 DEF CreateProfile
<1>6. ASSUME NEW c \in Clients, Draw(c) PROVE Numbering' /\ NumbersGapless'
  BY <1>6 DEF Draw
<1>7. ASSUME NEW c \in Clients, Issue(c) PROVE Numbering' /\ NumbersGapless'
  <2>1. number[c] = Len(invoices) + 1 /\ next = number[c]
    BY <1>7 DEF Issue
  <2>2. invoices' = Append(invoices, Invoice(c)) /\ Invoice(c).number = number[c]
    BY <1>7 DEF Issue, Invoice
  <2>3. NumbersGapless'
    <3>1. Invoice(c) \in [number : Nat, call : 1 .. MaxCalls, lines : SUBSET Charges]
      BY <1>7 DEF Issue, Invoice, OverlapSound
    <3>2. \A i \in DOMAIN invoices' :
            i = Len(invoices) + 1 \/ (i \in DOMAIN invoices /\ invoices'[i] = invoices[i])
      BY <2>2, <3>1, Appended
    <3>3. invoices'[Len(invoices) + 1] = Invoice(c)
      BY <2>2, <3>1, Appended
    <3> QED
      BY <2>1, <2>2, <3>2, <3>3
  <2>4. \A d \in Clients : d # c => pc[d] # "issue" /\ pc'[d] = pc[d]
    BY <1>7 DEF Issue
  <2>5. Numbering'
    BY <1>7, <2>1, <2>2, <2>4 DEF Issue
  <2> QED
    BY <2>3, <2>5
<1>8. ASSUME NEW c \in Clients, Fail(c) PROVE Numbering' /\ NumbersGapless'
  BY <1>8 DEF Fail
<1>9. CASE UNCHANGED vars
  BY <1>9 DEF vars
<1> QED
  BY <1>1, <1>2, <1>3, <1>4, <1>5, <1>6, <1>7, <1>8, <1>9 DEF Next, CallStep

-----------------------------------------------------------------------------
(* Overlaps, and the charges a call holds.                                 *)

LEMMA OverlapStep ==
  ASSUME TypeOK, OverlapSound, [Next]_vars
  PROVE  OverlapSound' /\ overlap \subseteq overlap'
<1> USE DEF TypeOK, At, OverlapSound, Overlapped
<1>1. CASE Accrue
  BY <1>1 DEF Accrue
<1>2. ASSUME NEW c \in Clients, Start(c) PROVE OverlapSound' /\ overlap \subseteq overlap'
  <2>1. overlap \subseteq overlap'
    BY <1>2 DEF Start
  <2>2. call'[c] = calls + 1 /\ \A d \in Clients \ {c} : call'[d] = call[d] /\ pc'[d] = pc[d]
    BY <1>2 DEF Start
  <2>3. \A d \in Clients \ {c} : pc[d] # "idle" => <<call[d], calls + 1>> \in overlap'
    BY <1>2 DEF Start
  <2>4. ASSUME NEW d \in Clients \ {c}, pc'[d] # "idle"
        PROVE  <<call'[d], call'[c]>> \in overlap' /\ call'[d] # 0
    BY <2>2, <2>3, <2>4
  <2>5. ASSUME NEW d \in Clients \ {c}, NEW e \in Clients \ {c}, d # e,
               pc'[d] # "idle", pc'[e] # "idle"
        PROVE  <<call'[d], call'[e]>> \in overlap' \/ <<call'[e], call'[d]>> \in overlap'
    BY <2>1, <2>2, <2>5
  <2>6. call'[c] # 0
    BY <2>2
  <2>7. \A d \in Clients : pc'[d] # "idle" => call'[d] # 0
    BY <2>4, <2>6
  <2>8. ASSUME NEW d \in Clients, NEW e \in Clients, d # e,
               pc'[d] # "idle", pc'[e] # "idle"
        PROVE  <<call'[d], call'[e]>> \in overlap' \/ <<call'[e], call'[d]>> \in overlap'
    BY <2>4, <2>5, <2>8, Zenon
  <2> QED
    BY <2>1, <2>7, <2>8
<1>3. ASSUME NEW c \in Clients, CallStep(c)
      PROVE OverlapSound' /\ overlap \subseteq overlap'
  <2>1. UNCHANGED <<call, overlap>> /\ pc[c] # "idle"
        /\ \A d \in Clients \ {c} : pc'[d] = pc[d]
    BY <1>3 DEF CallStep, ReadCharges, ReadProfile, CreateProfile, Draw, Issue
  <2> QED
    BY <2>1
<1>4. ASSUME NEW c \in Clients, Fail(c) PROVE OverlapSound' /\ overlap \subseteq overlap'
  BY <1>4 DEF Fail
<1>5. CASE UNCHANGED vars
  BY <1>5 DEF vars
<1> QED
  BY <1>1, <1>2, <1>3, <1>4, <1>5 DEF Next

LEMMA BillingStep ==
  ASSUME BillingInv, TypeOK', [Next]_vars
  PROVE  BillingInv'
<1>0. OverlapSound' /\ overlap \subseteq overlap'
  BY OverlapStep DEF BillingInv
<1> USE DEF At
<1> SUFFICES HeldSound' /\ ChargesReconcile' /\ BilledTwiceOnlyByOverlap'
  BY <1>0 DEF BillingInv
<1>1. ASSUME UNCHANGED <<invoices, invoiceOf>>
      PROVE ChargesReconcile' /\ BilledTwiceOnlyByOverlap'
  <2>1. ChargesReconcile'
    BY <1>1 DEF BillingInv, ChargesReconcile
  <2>2. BilledTwiceOnlyByOverlap'
    BY <1>0, <1>1, Zenon DEF BillingInv, BilledTwiceOnlyByOverlap
  <2> QED
    BY <2>1, <2>2
<1>2. CASE Accrue
  BY <1>1, <1>2 DEF Accrue, BillingInv, HeldSound, Overlapped
<1>3. ASSUME NEW c \in Clients, Start(c) PROVE HeldSound'
  <2>1. pc[c] = "idle" /\ pc'[c] = "charges" /\ UNCHANGED <<invoices, todo, group>>
        /\ \A d \in Clients \ {c} : pc'[d] = pc[d] /\ call'[d] = call[d]
    BY <1>3 DEF Start, BillingInv, TypeOK
  <2> QED
    BY <1>0, <2>1 DEF BillingInv, HeldSound, Overlapped
<1>4. ASSUME NEW c \in Clients, ReadCharges(c) PROVE HeldSound'
  <2>1. \A d \in Clients \ {c} : pc'[d] = pc[d] /\ todo'[d] = todo[d]
    BY <1>4 DEF ReadCharges, BillingInv, TypeOK
  <2>2. \A ch \in todo'[c] : ch \in Charges /\ invoiceOf[ch] = 0
    BY <1>4 DEF ReadCharges, Unbilled, BillingInv, TypeOK
  <2>3. \A i \in DOMAIN invoices : invoices[i].lines \cap todo'[c] = {}
    <3>1. SUFFICES ASSUME NEW i \in DOMAIN invoices, NEW ch \in todo'[c],
                          ch \in invoices[i].lines
                   PROVE  FALSE
      OBVIOUS
    <3>2. i \in {k \in DOMAIN invoices : ch \in invoices[k].lines}
      BY <3>1
    <3>3. invoiceOf[ch] \in DOMAIN invoices
      BY <2>2, <3>2 DEF BillingInv, ChargesReconcile
    <3>4. 0 \notin DOMAIN invoices
      BY DEF BillingInv, TypeOK
    <3> QED
      BY <2>2, <3>3, <3>4
  <2>4. UNCHANGED <<invoices, group, call, overlap>> /\ pc'[c] # "issue"
    BY <1>4 DEF ReadCharges, BillingInv, TypeOK
  <2> QED
    BY <2>1, <2>3, <2>4 DEF BillingInv, HeldSound, Overlapped
<1>5. ASSUME NEW c \in Clients, ReadProfile(c) \/ CreateProfile(c) \/ Fail(c)
      PROVE HeldSound'
  <2>1. UNCHANGED <<invoices, todo, group, call, overlap>> /\ pc'[c] # "issue"
        /\ (pc'[c] = "idle" \/ pc[c] \notin {"idle", "charges"})
        /\ \A d \in Clients \ {c} : pc'[d] = pc[d]
    BY <1>5 DEF ReadProfile, CreateProfile, Fail, BillingInv, TypeOK
  <2> QED
    BY <2>1 DEF BillingInv, HeldSound, Overlapped
<1>6. ASSUME NEW c \in Clients, Draw(c) PROVE HeldSound'
  <2>1. UNCHANGED <<invoices, todo, call, overlap>> /\ pc[c] = "draw"
        /\ \A d \in Clients \ {c} : pc'[d] = pc[d] /\ group'[d] = group[d]
    BY <1>6 DEF Draw, BillingInv, TypeOK
  <2>2. group'[c] \subseteq todo[c]
    BY <1>6 DEF Draw, BillingInv, TypeOK
  <2> QED
    BY <2>1, <2>2 DEF BillingInv, HeldSound, Overlapped
<1>7. ASSUME NEW c \in Clients, Issue(c)
      PROVE HeldSound' /\ ChargesReconcile' /\ BilledTwiceOnlyByOverlap'
  <2> DEFINE n == Len(invoices) + 1
  <2>1. /\ n \in Nat /\ DOMAIN invoices = 1 .. Len(invoices)
        /\ DOMAIN invoices' = (DOMAIN invoices) \cup {n} /\ n \notin DOMAIN invoices
        /\ \A i \in DOMAIN invoices : i < n /\ invoices'[i] = invoices[i]
        /\ invoices'[n] = Invoice(c)
    <3>1. Invoice(c) \in [number : Nat, call : 1 .. MaxCalls, lines : SUBSET Charges]
      BY <1>7 DEF Issue, Invoice, BillingInv, TypeOK, OverlapSound
    <3>2. invoices' = Append(invoices, Invoice(c))
      BY <1>7 DEF Issue
    <3>3. invoices \in Seq([number : Nat, call : 1 .. MaxCalls, lines : SUBSET Charges])
      BY DEF BillingInv, TypeOK
    <3> HIDE DEF n
    <3>4. n = Len(invoices) + 1
      BY DEF n
    <3>5. DOMAIN invoices = 1 .. Len(invoices)
      BY <3>3
    <3> QED
      BY <3>1, <3>2, <3>3, <3>4, <3>5, Appended
  <2>2. Invoice(c).lines = group[c] /\ Invoice(c).call = call[c]
    BY DEF Invoice
  <2>3. UNCHANGED <<call, overlap, group>> /\ todo'[c] = todo[c] \ group[c]
        /\ \A d \in Clients \ {c} : todo'[d] = todo[d] /\ pc'[d] = pc[d]
    BY <1>7 DEF Issue, BillingInv, TypeOK
  <2>4. pc[c] = "issue" /\ pc'[c] \in {"idle", "draw"} /\ group[c] \subseteq todo[c]
    BY <1>7 DEF Issue, BillingInv, HeldSound, TypeOK
  <2>5. \A i \in DOMAIN invoices :
          invoices[i].lines \cap todo[c] # {} => Overlapped(invoices[i].call, call[c])
    BY <2>4 DEF BillingInv, HeldSound
  <2>6. ChargesReconcile'
    <3>1. \A ch \in Charges : invoiceOf'[ch] = IF ch \in group[c] THEN n ELSE invoiceOf[ch]
      BY <1>7 DEF Issue, Claimed
    <3> DEFINE on(ch) == {i \in DOMAIN invoices : ch \in invoices[i].lines}
               on2(ch) == {i \in DOMAIN invoices' : ch \in invoices'[i].lines}
    <3>2. ASSUME NEW ch \in Charges PROVE
            on2(ch) = IF ch \in group[c] THEN on(ch) \cup {n} ELSE on(ch)
      BY <2>1, <2>2
    <3>3. \A ch \in Charges :
            IF on(ch) = {} THEN invoiceOf[ch] = 0
            ELSE invoiceOf[ch] \in on(ch) /\ \A i \in on(ch) : i <= invoiceOf[ch]
      BY DEF BillingInv, ChargesReconcile
    <3>4. \A ch \in Charges :
            IF on2(ch) = {} THEN invoiceOf'[ch] = 0
            ELSE invoiceOf'[ch] \in on2(ch) /\ \A i \in on2(ch) : i <= invoiceOf'[ch]
      <4> TAKE ch \in Charges
      <4>1. CASE ch \in group[c]
        <5>1. on2(ch) = on(ch) \cup {n} /\ invoiceOf'[ch] = n
          BY <3>1, <3>2, <4>1
        <5>2. \A i \in on(ch) : i <= n
          BY <2>1
        <5> HIDE DEF on, on2, n
        <5> QED
          BY <2>1, <5>1, <5>2
      <4>2. CASE ch \notin group[c]
        <5>1. on2(ch) = on(ch) /\ invoiceOf'[ch] = invoiceOf[ch]
          BY <3>1, <3>2, <4>2
        <5> HIDE DEF on, on2
        <5> QED
          BY <3>3, <5>1
      <4> QED
        BY <4>1, <4>2
    <3> QED
      BY <3>4 DEF ChargesReconcile
  <2>7. BilledTwiceOnlyByOverlap'
    <3> SUFFICES ASSUME NEW i \in DOMAIN invoices', NEW j \in DOMAIN invoices', i < j,
                        invoices'[i].lines \cap invoices'[j].lines # {}
                 PROVE  Overlapped(invoices'[i].call, invoices'[j].call)
      BY <2>3 DEF BilledTwiceOnlyByOverlap, Overlapped
    <3>1. CASE j = n
      BY <2>1, <2>2, <2>4, <2>5, <3>1
    <3>2. CASE j # n
      <4>1. i \in DOMAIN invoices /\ j \in DOMAIN invoices
        BY <2>1, <3>2
      <4> QED
        BY <2>1, <4>1 DEF BillingInv, BilledTwiceOnlyByOverlap, Overlapped
    <3> QED
      BY <3>1, <3>2
  <2>8. HeldSound'
    <3>1. \A d \in Clients : pc'[d] = "issue" => group'[d] \subseteq todo'[d]
      BY <2>3, <2>4 DEF BillingInv, HeldSound
    <3>2. ASSUME NEW d \in Clients, pc'[d] \notin {"idle", "charges"},
                 NEW i \in DOMAIN invoices', invoices'[i].lines \cap todo'[d] # {}
          PROVE  Overlapped(invoices'[i].call, call'[d])
      <4>1. CASE d = c
        BY <2>1, <2>2, <2>3, <2>5, <3>2, <4>1
      <4>2. CASE d # c /\ i = n
        <5>1. Overlapped(call[c], call[d])
          BY <2>3, <2>4, <3>2, <4>2 DEF BillingInv, OverlapSound
        <5> QED
          BY <2>1, <2>2, <2>3, <4>2, <5>1
      <4>3. CASE d # c /\ i # n
        BY <2>1, <2>3, <3>2, <4>3 DEF BillingInv, HeldSound
      <4> QED
        BY <4>1, <4>2, <4>3
    <3>3. \A k, l : Overlapped(k, l)' <=> Overlapped(k, l)
      BY <2>3 DEF Overlapped
    <3> QED
      BY <3>1, <3>2, <2>3 DEF HeldSound, Overlapped
  <2> QED
    BY <2>6, <2>7, <2>8
<1>8. CASE UNCHANGED vars
  BY <1>8 DEF vars, BillingInv, HeldSound, ChargesReconcile, BilledTwiceOnlyByOverlap, Overlapped
<1>9. ASSUME NEW c \in Clients,
             Start(c) \/ ReadCharges(c) \/ ReadProfile(c) \/ CreateProfile(c) \/ Draw(c) \/ Fail(c)
      PROVE  UNCHANGED <<invoices, invoiceOf>>
  BY <1>9 DEF Start, ReadCharges, ReadProfile, CreateProfile, Draw, Fail
<1> QED
  BY <1>1, <1>2, <1>3, <1>4, <1>5, <1>6, <1>7, <1>8, <1>9, Zenon DEF Next, CallStep

-----------------------------------------------------------------------------

LEMMA BillingInvariant == Spec => []BillingInv
<1>1. Init => BillingInv
  <2>1. Init => OverlapSound /\ HeldSound
    BY DEF Init, OverlapSound, HeldSound
  <2>2. Init => ChargesReconcile /\ BilledTwiceOnlyByOverlap
    BY DEF Init, ChargesReconcile, BilledTwiceOnlyByOverlap
  <2> QED
    BY <2>1, <2>2, InvoicingTypeInit DEF BillingInv
<1>2. BillingInv /\ [Next]_vars => BillingInv'
  BY BillingStep, InvoicingTypeStep DEF BillingInv
<1> QED
  BY <1>1, <1>2, PTL DEF Spec

\* Type correctness, whatever the constants.
THEOREM InvoicingTypeCorrect == Spec => []TypeOK
<1>1. BillingInv => TypeOK
  BY DEF BillingInv
<1> QED
  BY <1>1, BillingInvariant, PTL

\* The company's series has no gap and no repeat, for any number of concurrent
\* and failing calls.
THEOREM SeriesGapless == Spec => []NumbersGapless
<1>1. Init => NumberInv
  BY InvoicingTypeInit DEF NumberInv, Init, OverlapSound, Numbering, NumbersGapless
<1>2. NumberInv /\ [Next]_vars => NumberInv'
  BY NumberStep, OverlapStep, InvoicingTypeStep DEF NumberInv
<1>3. NumberInv => NumbersGapless
  BY DEF NumberInv
<1> QED
  BY <1>1, <1>2, <1>3, PTL DEF Spec

\* A charge that is on two invoices was put there by calls that overlapped, for
\* any number of concurrent and failing calls.
THEOREM TwiceOnlyByOverlap == Spec => []BilledTwiceOnlyByOverlap
<1>1. BillingInv => BilledTwiceOnlyByOverlap
  BY DEF BillingInv
<1> QED
  BY <1>1, BillingInvariant, PTL

\* Charges and invoices always agree on who is on what.
THEOREM ChargesAgree == Spec => []ChargesReconcile
<1>1. BillingInv => ChargesReconcile
  BY DEF BillingInv
<1> QED
  BY <1>1, BillingInvariant, PTL
-----------------------------------------------------------------------------
(* The audit of an invoice.                                                *)

HIDE InvoicingAssumption

Decisions == {"ACCEPTED", "DISPUTED", "RESOLVED"}

\* A row of invoice_exceptions, whatever the rules computed for it.
Row(r) == r = [severity |-> r.severity, variance |-> r.variance, status |-> r.status]

\* Decisions are about stored findings and leave none open; the invoice as a whole is
\* never held.
TableSound ==
  /\ findings = [k \in DOMAIN findings |-> findings[k]]
  /\ \A k \in DOMAIN findings : Row(findings[k])
  /\ DOMAIN decided \subseteq DOMAIN findings
  /\ \A k \in DOMAIN decided : decided[k] \in Decisions
  /\ Document \notin disputed

FindingsInv == TableSound /\ FindingsStand

\* What an audit stores keeps every row and its status, unless it was open; a row that
\* is open after it has a code that the audit found, or the audit found nothing.
LEMMA StoredFindings ==
  ASSUME FindingsInv, NEW fs, NEW table, table = Settled(fs, Upserted(fs))
  PROVE  /\ table = [k \in DOMAIN table |-> table[k]]
         /\ DOMAIN findings \subseteq DOMAIN table
         /\ \A k \in DOMAIN table : Row(table[k])
         /\ \A k \in DOMAIN findings :
              findings[k].status # "OPEN" => table[k].status = findings[k].status
         /\ \A k \in DOMAIN table :
              table[k].status = "OPEN" => k.code \in Codes(fs) \/ fs = {}
<1> DEFINE rows == Upserted(fs)
<1>1. /\ DOMAIN findings \subseteq DOMAIN rows
      /\ \A k \in DOMAIN rows : Row(rows[k])
      /\ \A k \in DOMAIN findings : rows[k].status = findings[k].status
  BY DEF FindingsInv, TableSound, Upserted, Row
<1> HIDE DEF rows
<1>2. table = [k \in DOMAIN rows |->
                IF fs # {} /\ rows[k].status = "OPEN" /\ k.code \notin Codes(fs)
                  THEN [rows[k] EXCEPT !.status = "RESOLVED"]
                  ELSE rows[k]]
  BY DEF Settled, rows
<1>3. DOMAIN table = DOMAIN rows
  BY <1>2
<1>4. ASSUME NEW k \in DOMAIN rows
      PROVE  /\ Row(table[k])
             /\ rows[k].status # "OPEN" => table[k].status = rows[k].status
             /\ table[k].status = "OPEN" => k.code \in Codes(fs) \/ fs = {}
  <2>1. CASE fs # {} /\ rows[k].status = "OPEN" /\ k.code \notin Codes(fs)
    <3>1. table[k] = [rows[k] EXCEPT !.status = "RESOLVED"]
      BY <1>2, <2>1
    <3>2. Row(rows[k])
      BY <1>1
    <3>3. table[k] = [severity |-> rows[k].severity, variance |-> rows[k].variance,
                      status |-> "RESOLVED"]
      BY <3>1, <3>2 DEF Row
    <3> QED BY <2>1, <3>3 DEF Row
  <2>2. CASE ~(fs # {} /\ rows[k].status = "OPEN" /\ k.code \notin Codes(fs))
    BY <1>1, <1>2, <2>2
  <2> QED BY <2>1, <2>2
<1> QED BY <1>1, <1>2, <1>3, <1>4

LEMMA FindingsStep ==
  ASSUME FindingsInv, [AuditNext]_auditVars
  PROVE  FindingsInv'
<1> USE DEF FindingsInv, FindingsStand
<1>1. ASSUME UNCHANGED <<findings, disputed, decided, lastResult>> PROVE (TableSound /\ FindingsStand)'
  BY <1>1 DEF TableSound, Row, DecisionKept, HeldOnlyIfDisputed, OpenIsCurrent
<1>2. ASSUME NEW a \in Auditors, AuditCommit(a) PROVE (TableSound /\ FindingsStand)'
  <2>1. /\ findings' = Settled(result[a], Upserted(result[a]))
        /\ lastResult' = result[a] /\ UNCHANGED <<disputed, decided>>
    BY <1>2, Zenon DEF AuditCommit
  <2>2. /\ findings' = [k \in DOMAIN findings' |-> findings'[k]]
        /\ DOMAIN findings \subseteq DOMAIN findings'
        /\ \A k \in DOMAIN findings' : Row(findings'[k])
        /\ \A k \in DOMAIN findings :
             findings[k].status # "OPEN" => findings'[k].status = findings[k].status
        /\ \A k \in DOMAIN findings' :
             findings'[k].status = "OPEN" => k.code \in Codes(result[a]) \/ result[a] = {}
    BY <2>1, StoredFindings
  <2>3. TableSound'
    BY <2>1, <2>2 DEF TableSound, Row
  <2>4. DecisionKept'
    BY <2>1, <2>2 DEF DecisionKept, TableSound, Decisions
  <2>5. HeldOnlyIfDisputed'
    BY <2>1, <2>2 DEF HeldOnlyIfDisputed
  <2>6. OpenIsCurrent'
    BY <2>1, <2>2 DEF OpenIsCurrent, Codes
  <2> QED BY <2>3, <2>4, <2>5, <2>6
<1>3. ASSUME NEW k \in DOMAIN findings, NEW status \in Decisions, ResolveException(k, status)
      PROVE  (TableSound /\ FindingsStand)'
  <2>1. /\ findings' = [findings EXCEPT ![k].status = status]
        /\ disputed' = IF k.charge = Document THEN disputed
                       ELSE IF status = "DISPUTED" THEN disputed \cup {k.charge}
                       ELSE disputed \ {k.charge}
        /\ decided' = [j \in DOMAIN decided \cup {k} |-> IF j = k THEN status ELSE decided[j]]
        /\ lastResult' = lastResult
    BY <1>3, Zenon DEF ResolveException
  <2>2. /\ findings' = [j \in DOMAIN findings' |-> findings'[j]]
        /\ DOMAIN findings' = DOMAIN findings
        /\ \A j \in DOMAIN findings : j # k => findings'[j] = findings[j]
        /\ findings'[k] = [findings[k] EXCEPT !.status = status]
    BY <2>1 DEF TableSound
  <2>3. findings'[k] = [severity |-> findings[k].severity, variance |-> findings[k].variance,
                        status |-> status]
    BY <2>2 DEF TableSound, Row
  <2>4. Row(findings'[k]) /\ findings'[k].status = status
    BY <2>3 DEF Row
  <2>5. /\ DOMAIN decided' = DOMAIN decided \cup {k} /\ decided'[k] = status
        /\ \A j \in DOMAIN decided : j # k => decided'[j] = decided[j]
    BY <2>1
  <2>6. TableSound'
    <3>1. Document \notin disputed'
      BY <2>1 DEF TableSound
    <3>2. \A j \in DOMAIN findings' : Row(findings'[j])
      BY <2>2, <2>4 DEF TableSound
    <3> QED BY <2>2, <2>5, <3>1, <3>2 DEF TableSound, Row
  <2>7. DecisionKept'
    BY <2>2, <2>4, <2>5 DEF DecisionKept, TableSound
  <2>8. HeldOnlyIfDisputed'
    <3> SUFFICES ASSUME NEW c \in disputed'
                 PROVE  \E j \in DOMAIN findings' : j.charge = c /\ findings'[j].status = "DISPUTED"
      BY DEF HeldOnlyIfDisputed
    <3>1. CASE c = k.charge
      <4>1. status = "DISPUTED"
        BY <2>1, <3>1 DEF TableSound
      <4> QED BY <2>2, <2>4, <3>1, <4>1
    <3>2. CASE c # k.charge
      <4>1. PICK j \in DOMAIN findings : j.charge = c /\ findings[j].status = "DISPUTED"
        BY <2>1, <3>2 DEF HeldOnlyIfDisputed
      <4> QED BY <2>2, <3>2, <4>1
    <3> QED BY <3>1, <3>2
  <2>9. OpenIsCurrent'
    BY <2>1, <2>2, <2>4 DEF OpenIsCurrent, Codes, Decisions
  <2> QED BY <2>6, <2>7, <2>8, <2>9
<1>4. (TableSound /\ FindingsStand)'
  <2>1. CASE \E type \in EventTypes : Happen(type)
    BY <1>1, <2>1 DEF Happen
  <2>2. CASE IndexMoves
    BY <1>1, <2>2 DEF IndexMoves
  <2>3. ASSUME NEW a \in Auditors, AuditRead(a) \/ AuditFails(a)
        PROVE (TableSound /\ FindingsStand)'
    BY <1>1, <2>3 DEF AuditRead, AuditFails
  <2>4. CASE UNCHANGED auditVars
    BY <1>1, <2>4 DEF auditVars
  <2> QED BY <1>2, <1>3, <2>1, <2>2, <2>3, <2>4 DEF AuditNext, Decisions
<1> QED BY <1>4

\* However audits and decisions cross, and whatever the rules find: a person's
\* decision stands, no charge is held back without a dispute about it, and what stays
\* open was found by the last audit, but for its rules of settling by code.
THEOREM AuditsKeepDecisions == AuditSpec => []FindingsStand
<1>1. AuditInit => FindingsInv
  BY DEF AuditInit, FindingsInv, TableSound, FindingsStand, DecisionKept, HeldOnlyIfDisputed,
         OpenIsCurrent, Document
<1>2. FindingsInv => FindingsStand
  BY DEF FindingsInv
<1> QED BY <1>1, <1>2, FindingsStep, PTL DEF AuditSpec

-----------------------------------------------------------------------------
(* What the rules find about an invoice of an accepted quote.              *)

\* Every count up to the number of places is reached at one of them.
LEMMA NthPlace ==
  ASSUME NEW N \in Nat, NEW places \in SUBSET (1 .. N), NEW n \in 1 .. Cardinality(places)
  PROVE  /\ Nth(places, n) \in places
         /\ Cardinality({j \in places : j <= Nth(places, n)}) = n
<1> DEFINE UpTo(i) == {j \in places : j <= i}
           reached == {i \in Nat : n <= Cardinality(UpTo(i))}
<1>1. IsFiniteSet(places) /\ Cardinality(places) \in Nat /\ n \in Nat /\ n >= 1
  <2>1. IsFiniteSet(1 .. N)
    BY FS_Interval
  <2>2. IsFiniteSet(places)
    BY <2>1, FS_Subset
  <2>3. Cardinality(places) \in Nat
    BY <2>2, FS_CardinalityType
  <2> QED BY <2>2, <2>3
<1> HIDE DEF reached
<1>0. \A j \in places : j \in Nat /\ 1 <= j /\ j <= N
  OBVIOUS
<1>2. \A i \in Nat : IsFiniteSet(UpTo(i)) /\ Cardinality(UpTo(i)) \in Nat
  BY <1>1, FS_Subset, FS_CardinalityType
<1>3. UpTo(N) = places /\ UpTo(0) = {}
  <2>1. \A j \in places : ~(j <= 0)
    BY <1>0
  <2> QED BY <1>0, <2>1
<1>4. N \in reached /\ 0 \notin reached
  <2>1. Cardinality(UpTo(0)) = 0
    BY <1>3, FS_EmptySet
  <2> HIDE DEF UpTo
  <2> QED BY <1>1, <1>3, <2>1 DEF reached
<1>5. PICK i \in reached : \A m \in reached : i <= m
  <2>1. reached \in SUBSET Nat /\ reached # {}
    BY <1>4 DEF reached
  <2> QED BY <2>1, LeastNumber
<1>6. i \in Nat /\ i - 1 \in Nat /\ i - 1 \notin reached
  <2>1. i \in Nat /\ i # 0
    BY <1>4 DEF reached
  <2>2. i - 1 \in Nat /\ ~(i <= i - 1)
    BY <2>1
  <2> QED BY <1>5, <2>1, <2>2
<1>7. Cardinality(UpTo(i - 1)) < n /\ Cardinality(UpTo(i)) >= n
  <2>1. Cardinality(UpTo(i - 1)) \in Nat /\ Cardinality(UpTo(i)) \in Nat
    BY <1>2, <1>6
  <2> HIDE DEF UpTo
  <2>2. ~(n <= Cardinality(UpTo(i - 1))) /\ n <= Cardinality(UpTo(i))
    BY <1>6 DEF reached
  <2> QED BY <1>1, <2>1, <2>2
<1>8. i \in places
  <2>1. SUFFICES ASSUME i \notin places PROVE FALSE
    OBVIOUS
  <2>2. UpTo(i) = UpTo(i - 1)
    <3>1. \A j \in places : j <= i <=> j <= i - 1
      BY <1>0, <1>6, <2>1
    <3> QED BY <3>1
  <2>3. Cardinality(UpTo(i)) = Cardinality(UpTo(i - 1))
    BY <2>2
  <2> HIDE DEF UpTo
  <2> QED BY <1>1, <1>2, <1>6, <1>7, <2>3
<1>9. Cardinality(UpTo(i)) = n
  <2>1. UpTo(i) = UpTo(i - 1) \cup {i} /\ i \notin UpTo(i - 1)
    <3>1. \A j \in places : j <= i <=> j <= i - 1 \/ j = i
      BY <1>0, <1>6
    <3>2. ~(i <= i - 1)
      BY <1>6
    <3> QED BY <1>8, <3>1, <3>2
  <2>2. IsFiniteSet(UpTo(i - 1))
    BY <1>2, <1>6
  <2> HIDE DEF UpTo
  <2>3. Cardinality(UpTo(i)) = Cardinality(UpTo(i - 1)) + 1
    BY <2>1, <2>2, FS_AddElement
  <2> QED BY <1>1, <1>2, <1>6, <1>7, <2>3
<1>10. Cardinality({j \in places : j <= i}) = n
  BY <1>9
<1>11. \E m \in places : Cardinality({j \in places : j <= m}) = n
  BY <1>8, <1>10
<1> QED BY <1>11, Zenon DEF Nth

\* The platform's fee, which comes after all the lines of the quote.
FeeCharge(sale, cents) ==
  Charge(Len(sale.lines) + 1, ChargeMetadata("PLF", 0, "FORWARDER_ORIGINATED"), 1, cents,
         NoCost, sale.currency, FALSE)

\* An invoice bills lines of its quote, of its own currency, and the fee.
LEMMA BilledLines ==
  ASSUME NEW sale, sale.lines \in Seq(Range(sale.lines)),
         NEW charge \in Range(InvoiceCharges(sale))
  PROVE  \/ \E i \in DOMAIN sale.lines : /\ charge = QuotedCharges(sale.lines)[i]
                                        /\ charge.currency = sale.currency
         \/ \E cents : charge = FeeCharge(sale, cents)
<1> DEFINE quote == sale.lines
           quoted == QuotedCharges(quote)
           billed == {i \in DOMAIN quoted : quoted[i].currency = sale.currency}
           count == Cardinality(billed)
           freight == [n \in 1 .. count |-> quoted[Nth(billed, n)]]
           fee == PlatformFee(quote, sale.currency)
           sold == {quoted[i] : i \in billed}
<1>1. Len(quote) \in Nat /\ DOMAIN quote = 1 .. Len(quote) /\ DOMAIN quoted = DOMAIN quote
  BY DEF QuotedCharges
<1>2. billed \in SUBSET (1 .. Len(quote))
  BY <1>1
<1>3. count \in Nat
  <2>1. IsFiniteSet(1 .. Len(quote))
    BY <1>1, FS_Interval
  <2> HIDE DEF billed
  <2>2. IsFiniteSet(billed)
    BY <1>2, <2>1, FS_Subset
  <2> QED BY <2>2, FS_CardinalityType
<1>4. \A n \in 1 .. count : freight[n] \in sold
  <2>1. \A n \in 1 .. count : Nth(billed, n) \in billed
    <3> HIDE DEF billed
    <3> QED BY <1>1, <1>2, NthPlace
  <2> HIDE DEF quoted, billed
  <2> QED BY <2>1
<1>5. fee = <<>> \/ \E cents : fee = <<FeeCharge(sale, cents)>>
  BY Zenon DEF PlatformFee, FeeCharge
<1> DEFINE added == Range(fee)
<1>6. fee \in Seq(added) /\ \A c \in added : \E cents : c = FeeCharge(sale, cents)
  <2>1. CASE fee = <<>>
    <3> HIDE DEF fee
    <3> QED BY <2>1 DEF Range
  <2>2. CASE fee # <<>>
    <3>1. PICK cents : fee = <<FeeCharge(sale, cents)>>
      BY <1>5, <2>2
    <3> DEFINE only == FeeCharge(sale, cents)
    <3>2. fee = <<only>>
      BY <3>1
    <3> HIDE DEF only, fee
    <3>3. DOMAIN fee = {1} /\ fee[1] = only /\ fee \in Seq({only})
      BY <3>2
    <3>4. added = {only}
      BY <3>3 DEF Range
    <3> QED BY <3>3, <3>4 DEF only
  <2> QED BY <2>1, <2>2
<1>7. charge \in Range(freight \o fee)
  BY DEF InvoiceCharges
<1>8. charge \in sold \cup added
  <2>1. freight \in Seq(sold)
    <3> HIDE DEF count, sold
    <3> QED BY <1>3, <1>4
  <2> HIDE DEF fee, freight, sold, added
  <2>2. freight \in Seq(sold \cup added) /\ fee \in Seq(sold \cup added)
    BY <1>6, <2>1
  <2>3. freight \o fee \in Seq(sold \cup added)
    BY <2>2
  <2> QED BY <1>7, <2>3 DEF Range
<1>9. \A c \in sold : \E i \in DOMAIN quote : c = quoted[i] /\ c.currency = sale.currency
  <2> HIDE DEF quoted
  <2> QED BY <1>1
<1> HIDE DEF sold, added
<1> QED BY <1>6, <1>8, <1>9

\* What the rules about a line by itself ask of it.
Blameless(line, currency) ==
  /\ line.sell = line.unit * line.quantity
  /\ line.currency = currency
  /\ line.provenance # "PASS_THROUGH"
  /\ line.provenance = "FORWARDER_ORIGINATED" \/ line.contractRef

\* A charge of an invoice keeps the rules that are about it alone.
LEMMA ChargeBlameless ==
  ASSUME NEW sale, sale.lines \in Seq(Range(sale.lines)),
         NEW c \in Range(InvoiceCharges(sale))
  PROVE  /\ {"sell", "unit", "quantity", "currency", "provenance", "contractRef"} \subseteq DOMAIN c
         /\ Blameless(c, sale.currency)
<1> DEFINE Kept == /\ {"sell", "unit", "quantity", "currency", "provenance", "contractRef"}
                        \subseteq DOMAIN c
                   /\ Blameless(c, sale.currency)
<1>1. ASSUME NEW i \in DOMAIN sale.lines, c = QuotedCharges(sale.lines)[i],
             c.currency = sale.currency
      PROVE  Kept
  BY <1>1 DEF QuotedCharges, Charge, ChargeMetadata, Blameless
<1>2. ASSUME NEW cents, c = FeeCharge(sale, cents)
      PROVE  Kept
  BY <1>2 DEF FeeCharge, Charge, ChargeMetadata, Blameless
<1>3. Kept
  BY <1>1, <1>2, BilledLines
<1> QED BY <1>3

\* Of the contract, a code's price is that of one of the quote's lines filed under it.
LEMMA ContractedBy ==
  ASSUME NEW quote, quote \in Seq(Range(quote)), NEW code \in DOMAIN ContractRates(quote)
  PROVE  \E i \in DOMAIN quote :
           /\ Filed(quote[i]).code = code
           /\ ContractRates(quote)[code].unit = RoundHalfUp(quote[i].sell, quote[i].quantity)
<1> DEFINE Coded(i) == Filed(quote[i]).code
           Ends(c) == CHOOSE i \in DOMAIN quote :
                        /\ Coded(i) = c
                        /\ \A j \in i + 1 .. Len(quote) : Coded(j) # c
           left == {m \in Nat : \E i \in DOMAIN quote : Coded(i) = code /\ m = Len(quote) - i}
<1>1. Len(quote) \in Nat /\ DOMAIN quote = 1 .. Len(quote)
  OBVIOUS
<1>2. PICK k \in DOMAIN quote : Coded(k) = code
  BY DEF ContractRates
<1>3. left # {}
  <2>1. Len(quote) - k \in left
    <3>1. Len(quote) - k \in Nat
      BY <1>1
    <3> HIDE DEF Coded
    <3> QED BY <1>2, <3>1
  <2> QED BY <2>1
<1>4. PICK m \in left : \A l \in left : m <= l
  <2>1. left \in SUBSET Nat
    OBVIOUS
  <2> HIDE DEF left
  <2> QED BY <1>3, <2>1, LeastNumber
<1>5. PICK i \in DOMAIN quote : Coded(i) = code /\ m = Len(quote) - i
  OBVIOUS
<1>6. \A j \in i + 1 .. Len(quote) : Coded(j) # code
  <2> SUFFICES ASSUME NEW j \in i + 1 .. Len(quote), Coded(j) = code PROVE FALSE
    OBVIOUS
  <2>1. j \in DOMAIN quote /\ Len(quote) - j \in Nat /\ Len(quote) - j < m
    BY <1>1, <1>5
  <2>2. Len(quote) - j \in left
    BY <2>1
  <2> HIDE DEF left
  <2> QED BY <1>1, <1>4, <1>5, <2>1, <2>2
<1>7. Ends(code) \in DOMAIN quote /\ Coded(Ends(code)) = code
  <2> HIDE DEF Coded
  <2> QED BY <1>5, <1>6
<1>8. ContractRates(quote)[code].unit = RoundHalfUp(quote[Ends(code)].sell, quote[Ends(code)].quantity)
  BY DEF ContractRates
<1> HIDE DEF Ends
<1> QED BY <1>7, <1>8

\* Only the contract's rule finds a rate that varies, and it does so where the rate is
\* out of tolerance.
LEMMA VarianceFound ==
  ASSUME NEW in, NEW f \in AuditInvoice(in), f.code = "CONTRACT_RATE_VARIANCE"
  PROVE  \E line \in Range(in.lines) :
           /\ line.code \in DOMAIN in.contract
           /\ f.charge = line.id
           /\ Abs(BpsDrift(line.unit, in.contract[line.code].unit)) > Tolerance
<1>1. \A c, x : x \in Only(c, x) <=> c
  BY DEF Only
<1> DEFINE Other(fs) == \A x \in fs : x.code # "CONTRACT_RATE_VARIANCE"
<1>2. Other(FuelFindings(in))
  <2>1. \A line, bench : Other(FuelVariance(line, bench))
    BY DEF FuelVariance, Only, Finding
  <2>2. Other({Finding("FUEL_BENCHMARK_UNAVAILABLE", Document, "WARN", 0)})
    BY DEF Finding
  <2> QED BY <2>1, <2>2 DEF FuelFindings
<1>3. Other(DemurrageFindings(in))
  BY DEF DemurrageFindings, Only, Finding
<1>4. Other(OverlapFindings(in))
  BY DEF OverlapFindings, Only, Finding
<1>5. Other(DuplicateFindings(in))
  BY DEF DuplicateFindings, Finding
<1>6. Other(TotalFindings(in))
  BY DEF TotalFindings, Only, Finding
<1>7. f \in LineFindings(in)
  <2> HIDE DEF Other
  <2>1. f \notin FuelFindings(in) \cup DemurrageFindings(in) \cup OverlapFindings(in)
               \cup DuplicateFindings(in) \cup TotalFindings(in)
    BY <1>2, <1>3, <1>4, <1>5, <1>6 DEF Other
  <2> QED BY <2>1 DEF AuditInvoice
<1>8. PICK line \in Range(in.lines) :
        f \in Unmapped(line) \cup ForeignCurrency(line, in) \cup Arithmetic(line)
              \cup MarginOnPassThrough(line) \cup VatTreatment(line, in)
              \cup Quantities(line, in) \cup AgainstContract(line, in) \cup Performed(line, in)
  BY <1>7 DEF LineFindings
<1>9. Other(Unmapped(line)) /\ Other(ForeignCurrency(line, in)) /\ Other(Arithmetic(line))
  BY DEF Unmapped, ForeignCurrency, Arithmetic, Only, Finding
<1>10. Other(MarginOnPassThrough(line)) /\ Other(Performed(line, in))
  BY DEF MarginOnPassThrough, Performed, Only, Finding
<1>11. Other(VatTreatment(line, in))
  BY DEF VatTreatment, Only, Finding
<1>12. Other(Quantities(line, in))
  BY DEF Quantities, Only, Finding
<1>13. f \in AgainstContract(line, in)
  <2> HIDE DEF Other
  <2>1. f \notin Unmapped(line) \cup ForeignCurrency(line, in) \cup Arithmetic(line)
               \cup MarginOnPassThrough(line) \cup VatTreatment(line, in)
               \cup Quantities(line, in) \cup Performed(line, in)
    BY <1>9, <1>10, <1>11, <1>12 DEF Other
  <2> QED BY <1>8, <2>1
<1>14. line.code \in DOMAIN in.contract /\ f \in RateVariance(line, in.contract[line.code])
  BY <1>13 DEF AgainstContract, Only, Finding
<1> QED BY <1>14 DEF RateVariance, Only, Finding

\* Only the rules about a line by itself, and those about the totals, find such faults.
LEMMA OwnFaultFound ==
  ASSUME NEW in, NEW f \in AuditInvoice(in), f.code \in OwnFaults
  PROVE  \/ \E line \in Range(in.lines) : ~Blameless(line, in.currency)
         \/ in.subtotal # Total(in.lines, LAMBDA l : l.sell)
         \/ in.subtotal + in.vat # in.total
<1> DEFINE Other(fs) == \A x \in fs : x.code \notin OwnFaults
<1>1. Other(FuelFindings(in))
  <2>1. \A line, bench : Other(FuelVariance(line, bench))
    BY DEF FuelVariance, Only, Finding, OwnFaults
  <2>2. Other({Finding("FUEL_BENCHMARK_UNAVAILABLE", Document, "WARN", 0)})
    BY DEF Finding, OwnFaults
  <2> QED BY <2>1, <2>2 DEF FuelFindings
<1>2. Other(DemurrageFindings(in))
  BY DEF DemurrageFindings, Only, Finding, OwnFaults
<1>3. Other(OverlapFindings(in))
  BY DEF OverlapFindings, Only, Finding, OwnFaults
<1>4. Other(DuplicateFindings(in))
  BY DEF DuplicateFindings, Finding, OwnFaults
<1>5. CASE f \in TotalFindings(in)
  BY <1>5 DEF TotalFindings, Only
<1>6. CASE f \in LineFindings(in)
  <2>1. PICK line \in Range(in.lines) :
          f \in Unmapped(line) \cup ForeignCurrency(line, in) \cup Arithmetic(line)
                \cup MarginOnPassThrough(line) \cup VatTreatment(line, in)
                \cup Quantities(line, in) \cup AgainstContract(line, in) \cup Performed(line, in)
    BY <1>6 DEF LineFindings
  <2>2. Other(Unmapped(line)) /\ Other(Performed(line, in))
    BY DEF Unmapped, Performed, Only, Finding, OwnFaults
  <2>3. Other(VatTreatment(line, in))
    BY DEF VatTreatment, Only, Finding, OwnFaults
  <2>4. Other(Quantities(line, in))
    BY DEF Quantities, Only, Finding, OwnFaults
  <2>5. \A contracted : Other(RateVariance(line, contracted))
    BY DEF RateVariance, Only, Finding, OwnFaults
  <2>6. f \in ForeignCurrency(line, in) \cup Arithmetic(line) \cup MarginOnPassThrough(line)
              \cup AgainstContract(line, in)
    <3> HIDE DEF Other
    <3>1. f \notin Unmapped(line) \cup VatTreatment(line, in) \cup Quantities(line, in)
                 \cup Performed(line, in)
      BY <2>2, <2>3, <2>4 DEF Other
    <3> QED BY <2>1, <3>1
  <2>7. CASE f \in ForeignCurrency(line, in)
    BY <2>7 DEF ForeignCurrency, Only, Blameless
  <2>8. CASE f \in Arithmetic(line)
    BY <2>8 DEF Arithmetic, Only, Blameless
  <2>9. CASE f \in MarginOnPassThrough(line)
    BY <2>9 DEF MarginOnPassThrough, Only, Blameless
  <2>10. CASE f \in AgainstContract(line, in)
    <3>1. f \in Only(/\ line.provenance # "FORWARDER_ORIGINATED"
                     /\ ~line.contractRef /\ ~line.vendorRef
                     /\ Material(line.sell),
                     Finding("NO_MATCH_REFERENCE", line.id, "WARN", 0))
      <4> HIDE DEF Other
      <4>1. f \notin {Finding("CONTRACT_CURRENCY_MISMATCH", line.id, "WARN", 0)}
        BY DEF Finding, OwnFaults
      <4>2. \A contracted : f \notin RateVariance(line, contracted)
        BY <2>5 DEF Other
      <4> QED BY <2>10, <4>1, <4>2 DEF AgainstContract
    <3> QED BY <3>1 DEF Only, Blameless
  <2> QED BY <2>6, <2>7, <2>8, <2>9, <2>10
<1> HIDE DEF Other
<1>7. f \in LineFindings(in) \cup TotalFindings(in)
  <2>1. f \notin FuelFindings(in) \cup DemurrageFindings(in) \cup OverlapFindings(in)
               \cup DuplicateFindings(in)
    BY <1>1, <1>2, <1>3, <1>4 DEF Other
  <2> QED BY <2>1 DEF AuditInvoice
<1> QED BY <1>5, <1>6, <1>7

\* A line that is held to its own price, of a single unit, does not vary.
LEMMA OwnPrice ==
  ASSUME NEW price \in Int
  PROVE  ~(Abs(BpsDrift(price, RoundHalfUp(price, 1))) > Tolerance)
<1>1. RoundHalfUp(price, 1) = price
  BY DEF RoundHalfUp
<1>2. BpsDrift(price, price) = 0
  <2>1. CASE price = 0
    BY <2>1 DEF BpsDrift
  <2>2. CASE price # 0
    <3>1. BpsDrift(price, price) = RoundHalfUp(0, Abs(price))
      BY <2>2 DEF BpsDrift
    <3>2. \A d \in Nat \ {0} : RoundHalfUp(0, d) = 0
      BY DEF RoundHalfUp
    <3>3. Abs(price) \in Nat \ {0}
      BY <2>2 DEF Abs
    <3> QED BY <3>1, <3>2, <3>3
  <2> QED BY <2>1, <2>2
<1> QED BY <1>1, <1>2 DEF Abs, Tolerance

\* What VarianceOnlyByQuantity says of the charge of one finding.
Explained(charge) ==
  \E line \in Range(AuditLines(InvoiceCharges(accepted))) :
    /\ line.id = charge
    /\ \/ line.quantity > 1
       \/ \E i \in DOMAIN accepted.lines \ {line.id} : Filed(accepted.lines[i]).code = line.code

LEMMA FoundIsExplained ==
  ASSUME SoldLines, accepted \in Sales,
         NEW f \in AuditInvoice(AuditInput), f.code = "CONTRACT_RATE_VARIANCE"
  PROVE  Explained(f.charge)
<1> DEFINE quote == accepted.lines
           charges == InvoiceCharges(accepted)
           contract == ContractRates(quote)
<1>1. AuditInput.lines = AuditLines(charges) /\ AuditInput.contract = contract
  BY DEF AuditInput
<1>2. PICK line \in Range(AuditLines(charges)) :
        /\ line.code \in DOMAIN contract
        /\ f.charge = line.id
        /\ Abs(BpsDrift(line.unit, contract[line.code].unit)) > Tolerance
  BY <1>1, VarianceFound
<1>3. PICK c \in Range(charges) :
        line = [x \in DOMAIN c \cup {"match"} |->
                 IF x \in {"code", "match"} THEN Filed(c)[x] ELSE c[x]]
  BY DEF AuditLines, Range
<1>4. /\ quote \in Seq(Range(quote))
      /\ \A i \in DOMAIN quote : quote[i].sell \in Int /\ quote[i].quantity \in Nat \ {0}
  BY DEF SoldLines, Range
<1>5. PICK j \in DOMAIN quote :
        /\ Filed(quote[j]).code = line.code
        /\ contract[line.code].unit = RoundHalfUp(quote[j].sell, quote[j].quantity)
  <2> DEFINE sold == line.code
  <2>1. quote \in Seq(Range(quote)) /\ sold \in DOMAIN ContractRates(quote)
    BY <1>2, <1>4
  <2> HIDE DEF quote, sold
  <2>2. \E j \in DOMAIN quote :
          /\ Filed(quote[j]).code = sold
          /\ contract[sold].unit = RoundHalfUp(quote[j].sell, quote[j].quantity)
    BY <2>1, ContractedBy
  <2> QED BY <2>2 DEF sold
<1>6. CASE j # line.id
  BY <1>2, <1>5, <1>6 DEF Explained
<1>7. CASE j = line.id
  <2>1. ~("id" \in DOMAIN c /\ c.id \notin DOMAIN quote)
    BY <1>3, <1>5, <1>7
  <2>2. PICK i \in DOMAIN quote : c = QuotedCharges(quote)[i]
    <3>1. \A cents : /\ "id" \in DOMAIN FeeCharge(accepted, cents)
                     /\ FeeCharge(accepted, cents).id \notin DOMAIN quote
      BY <1>4 DEF FeeCharge, Charge
    <3> QED BY <1>4, <2>1, <3>1, BilledLines
  <2>3. /\ {"id", "unit", "quantity"} \subseteq DOMAIN c
        /\ c.id = i /\ c.unit = quote[i].sell /\ c.quantity = quote[i].quantity
    BY <2>2 DEF QuotedCharges, Charge
  <2>4. line.id = i /\ line.unit = quote[i].sell /\ line.quantity = quote[i].quantity
    BY <1>3, <2>3
  <2>5. quote[i].quantity # 1
    <3> SUFFICES ASSUME quote[i].quantity = 1 PROVE FALSE
      OBVIOUS
    <3>1. contract[line.code].unit = RoundHalfUp(quote[i].sell, 1)
      BY <1>5, <1>7, <2>4
    <3>2. quote[i].sell \in Int
      BY <1>4
    <3> QED BY <1>2, <2>4, <3>1, <3>2, OwnPrice
  <2>6. line.quantity > 1
    BY <1>4, <2>4, <2>5
  <2> QED BY <1>2, <2>6 DEF Explained
<1> QED BY <1>6, <1>7

\* What accrual and issueInvoices make has no fault of its own.
LEMMA MadeSound ==
  ASSUME SoldLines, accepted \in Sales, NEW f \in AuditInvoice(AuditInput)
  PROVE  f.code \notin OwnFaults
<1> SUFFICES ASSUME f.code \in OwnFaults PROVE FALSE
  OBVIOUS
<1> DEFINE charges == InvoiceCharges(accepted)
           lines == AuditLines(charges)
<1>1. /\ AuditInput.lines = lines /\ AuditInput.currency = accepted.currency
      /\ AuditInput.subtotal = Stated(charges).subtotal /\ AuditInput.vat = Stated(charges).vat
      /\ AuditInput.total = Stated(charges).total
  BY DEF AuditInput
<1>0. \A i \in DOMAIN charges :
        /\ {"sell", "unit", "quantity", "currency", "provenance", "contractRef"}
             \subseteq DOMAIN charges[i]
        /\ Blameless(charges[i], accepted.currency)
  <2>1. accepted.lines \in Seq(Range(accepted.lines))
    BY DEF SoldLines
  <2> HIDE DEF charges
  <2>2. \A i \in DOMAIN charges : charges[i] \in Range(charges)
    BY DEF Range
  <2> QED BY <2>1, <2>2, ChargeBlameless DEF charges
<1>2. \A line \in Range(lines) : Blameless(line, accepted.currency)
  <2> HIDE DEF charges
  <2> SUFFICES ASSUME NEW line \in Range(lines) PROVE Blameless(line, accepted.currency)
    OBVIOUS
  <2>1. PICK i \in DOMAIN charges : line = lines[i]
    BY DEF AuditLines, Range
  <2> DEFINE c == charges[i]
  <2>2. line = [x \in DOMAIN c \cup {"match"} |->
                 IF x \in {"code", "match"} THEN Filed(c)[x] ELSE c[x]]
    BY <2>1 DEF AuditLines
  <2>3. {"sell", "unit", "quantity", "currency", "provenance", "contractRef"} \subseteq DOMAIN c
    BY <1>0
  <2>4. Blameless(c, accepted.currency)
    BY <1>0
  <2> HIDE DEF c, lines
  <2> QED BY <2>2, <2>3, <2>4 DEF Blameless
<1>3. Stated(charges).total = Stated(charges).subtotal + Stated(charges).vat
  BY DEF Stated
<1>4. Total(lines, LAMBDA l : l.sell) = Stated(charges).subtotal
  <2> DEFINE sells == [i \in DOMAIN charges |-> charges[i].sell]
             read == [i \in DOMAIN lines |-> lines[i].sell]
  <2>1. DOMAIN lines = DOMAIN charges /\ \A i \in DOMAIN charges : lines[i].sell = charges[i].sell
    BY <1>0 DEF AuditLines
  <2>2. read = sells
    BY <2>1
  <2>3. Total(lines, LAMBDA l : l.sell) = SumFunction(read)
    BY DEF Total
  <2>4. Stated(charges).subtotal = SumFunction(sells)
    BY DEF Stated, Total
  <2> QED BY <2>2, <2>3, <2>4, Zenon
<1> QED BY <1>1, <1>2, <1>3, <1>4, OwnFaultFound

\* What HeldToItsQuote says of one finding, or of its key.
HeldTo(f) ==
  /\ f.code = "CONTRACT_RATE_VARIANCE" => Explained(f.charge)
  /\ f.code \notin OwnFaults

\* It holds of what an audit is about to store as well, and the accepted quote stays.
QuoteInv ==
  /\ accepted \in Sales
  /\ DOMAIN result = Auditors
  /\ \A a \in Auditors : \A f \in result[a] : HeldTo(f)
  /\ \A k \in DOMAIN findings : HeldTo(k)

LEMMA QuoteStep ==
  ASSUME SoldLines, QuoteInv, [AuditNext]_auditVars
  PROVE  QuoteInv'
<1>1. accepted' = accepted
  BY DEF AuditNext, Happen, IndexMoves, AuditRead, AuditCommit, AuditFails, ResolveException,
         auditVars
<1>2. \A f : HeldTo(f)' <=> HeldTo(f)
  BY <1>1 DEF HeldTo, Explained
<1>3. ASSUME DOMAIN findings' = DOMAIN findings, result' = result PROVE QuoteInv'
  BY <1>1, <1>2, <1>3 DEF QuoteInv
<1>4. ASSUME NEW a \in Auditors, AuditRead(a) PROVE QuoteInv'
  <2>1. result' = [result EXCEPT ![a] = AuditInvoice(AuditInput)] /\ findings' = findings
    BY <1>4 DEF AuditRead
  <2>2. \A f \in result'[a] : HeldTo(f)
    BY <2>1, FoundIsExplained, MadeSound DEF QuoteInv, HeldTo
  <2> QED BY <1>1, <1>2, <2>1, <2>2 DEF QuoteInv
<1>5. ASSUME NEW a \in Auditors, AuditCommit(a) PROVE QuoteInv'
  <2>1. /\ findings' = Settled(result[a], Upserted(result[a]))
        /\ result' = [result EXCEPT ![a] = {}]
    BY <1>5, Zenon DEF AuditCommit
  <2>2. DOMAIN findings' = {Key(f) : f \in result[a]} \cup DOMAIN findings
    BY <2>1 DEF Settled, Upserted
  <2>3. \A k \in DOMAIN findings' : HeldTo(k)
    <3>1. \A f : HeldTo(f) => HeldTo(Key(f))
      BY DEF HeldTo, Key
    <3> QED BY <2>2, <3>1 DEF QuoteInv
  <2> QED BY <1>1, <1>2, <2>1, <2>3 DEF QuoteInv
<1>6. ASSUME NEW a \in Auditors, AuditFails(a) PROVE QuoteInv'
  <2>1. result' = [result EXCEPT ![a] = {}] /\ findings' = findings
    BY <1>6 DEF AuditFails
  <2> QED BY <1>1, <1>2, <2>1 DEF QuoteInv
<1>7. ASSUME NEW k \in DOMAIN findings, NEW status \in Decisions, ResolveException(k, status)
      PROVE  QuoteInv'
  <2>1. DOMAIN findings' = DOMAIN findings /\ result' = result
    BY <1>7 DEF ResolveException
  <2> QED BY <1>3, <2>1
<1>8. CASE \E type \in EventTypes : Happen(type)
  BY <1>3, <1>8 DEF Happen
<1>9. CASE IndexMoves
  BY <1>3, <1>9 DEF IndexMoves
<1>10. CASE UNCHANGED auditVars
  BY <1>3, <1>10 DEF auditVars
<1> QED BY <1>4, <1>5, <1>6, <1>7, <1>8, <1>9, <1>10 DEF AuditNext, Decisions

\* An invoice made of nothing but the accepted quote has no fault of its own, and is
\* never found to vary from the quote but where a unit price was divided by its quantity
\* or another line of the quote is filed under the same code; whatever quotes are
\* accepted, whatever spellings a company keeps, and however audits, decisions and
\* failures cross.
THEOREM InvoiceHeldToQuote == AuditSpec => []HeldToItsQuote
<1>1. AuditInit => QuoteInv
  BY DEF AuditInit, QuoteInv
<1>2. QuoteInv => HeldToItsQuote
  BY DEF QuoteInv, HeldTo, HeldToItsQuote, VarianceOnlyByQuantity, SoundInItself, Explained
<1>3. QuoteInv /\ [AuditNext]_auditVars => QuoteInv'
  BY QuoteStep, SoldLines
<1> QED BY <1>1, <1>2, <1>3, PTL DEF AuditSpec

-----------------------------------------------------------------------------
(* The document of an invoice.                                             *)

\* A place is found again by how many there are up to it.
LEMMA PlaceIsNth ==
  ASSUME NEW N \in Nat, NEW places \in SUBSET (1 .. N), NEW i \in places
  PROVE  \E n \in 1 .. Cardinality(places) : Nth(places, n) = i
<1> DEFINE UpTo(m) == {j \in places : j <= m}
           n == Cardinality(UpTo(i))
<1>1. IsFiniteSet(places) /\ Cardinality(places) \in Nat
  <2>1. IsFiniteSet(1 .. N)
    BY FS_Interval
  <2>2. IsFiniteSet(places)
    BY <2>1, FS_Subset
  <2> QED BY <2>2, FS_CardinalityType
<1>2. \A m \in places : /\ IsFiniteSet(UpTo(m)) /\ Cardinality(UpTo(m)) \in Nat
                        /\ Cardinality(UpTo(m)) <= Cardinality(places)
  BY <1>1, FS_Subset, FS_CardinalityType
<1>3. n \in 1 .. Cardinality(places)
  <2>1. i \in UpTo(i)
    OBVIOUS
  <2>2. n # 0
    <3> HIDE DEF UpTo
    <3> QED BY <1>2, <2>1, FS_EmptySet
  <2> HIDE DEF UpTo
  <2> QED BY <1>1, <1>2, <2>2
<1>4. \A m, k \in places : m < k => Cardinality(UpTo(m)) # Cardinality(UpTo(k))
  <2> SUFFICES ASSUME NEW m \in places, NEW k \in places, m < k,
                      Cardinality(UpTo(m)) = Cardinality(UpTo(k))
               PROVE  FALSE
    OBVIOUS
  <2>1. UpTo(m) \in SUBSET UpTo(k) /\ k \in UpTo(k) /\ k \notin UpTo(m)
    <3>1. m \in Nat /\ k \in Nat /\ \A j \in places : j \in Nat
      OBVIOUS
    <3>2. ~(k <= m) /\ k <= k /\ \A j \in places : j <= m => j <= k
      BY <3>1
    <3> QED BY <3>2
  <2> HIDE DEF UpTo
  <2>2. UpTo(m) = UpTo(k)
    BY <1>2, <2>1, FS_Subset
  <2> QED BY <2>1, <2>2
<1>5. \A m \in places : Cardinality({j \in places : j <= m}) = n => m = i
  <2> SUFFICES ASSUME NEW m \in places, Cardinality(UpTo(m)) = Cardinality(UpTo(i)) PROVE m = i
    OBVIOUS
  <2>1. m \in Nat /\ i \in Nat
    OBVIOUS
  <2>2. m < i \/ i < m \/ m = i
    BY <2>1
  <2> HIDE DEF UpTo
  <2> QED BY <1>4, <2>2
<1>6. Cardinality({j \in places : j <= i}) = n
  OBVIOUS
<1>7. Nth(places, n) = i
  <2> HIDE DEF n
  <2> QED BY <1>5, <1>6 DEF Nth
<1> QED BY <1>3, <1>7

\* Distinct numbers are the counts of distinct places.
LEMMA NthApart ==
  ASSUME NEW N \in Nat, NEW places \in SUBSET (1 .. N),
         NEW m \in 1 .. Cardinality(places), NEW n \in 1 .. Cardinality(places),
         Nth(places, m) = Nth(places, n)
  PROVE  m = n
<1> DEFINE place == Nth(places, m)
           count == Cardinality({j \in places : j <= place})
<1>1. count = m
  BY NthPlace
<1>2. count = n
  <2>1. Cardinality({j \in places : j <= Nth(places, n)}) = n
    BY NthPlace
  <2> QED BY <2>1, Zenon
<1> HIDE DEF count
<1> QED BY <1>1, <1>2

LEMMA SumMinus ==
  ASSUME NEW f, NEW g, NEW S, IsFiniteSet(S), \A x \in S : f[x] \in Int /\ g[x] = -f[x]
  PROVE  SumFunctionOnSet(f, S) + SumFunctionOnSet(g, S) = 0
<1> DEFINE none == [x \in S |-> 0]
<1>1. SumFunctionOnSet(none, S) = SumFunctionOnSet(f, S) + SumFunctionOnSet(g, S)
  <2>1. \A x \in S : f[x] \in Int /\ g[x] \in Int /\ none[x] = f[x] + g[x]
    OBVIOUS
  <2> HIDE DEF none
  <2> QED BY <2>1, SumPlus
<1>2. SumFunctionOnSet(none, S) = SumFunctionOnSet(none, S \cap {})
  <2>1. (\A x \in S : none[x] \in Int) /\ (\A x \in S : x \notin {} => none[x] = 0)
    OBVIOUS
  <2> HIDE DEF none
  <2> QED BY <2>1, SumOff
<1>3. S \cap {} = {}
  OBVIOUS
<1>4. SumFunctionOnSet(none, {}) = 0
  BY SumOfNone
<1> HIDE DEF none
<1> QED BY <1>1, <1>2, <1>3, <1>4

\* What a line of a document says.
LEMMA DocumentLine ==
  ASSUME NEW charges, Billable(charges), NEW type
  PROVE  /\ Len(charges) \in Nat /\ DOMAIN charges = 1 .. Len(charges)
         /\ DOMAIN DocumentLines(type, charges) = DOMAIN charges
         /\ \A i \in DOMAIN charges :
              LET line == DocumentLines(type, charges)[i]
                  sell == IF type = "CREDIT_NOTE" THEN -charges[i].sell ELSE charges[i].sell
              IN /\ charges[i].sell \in Nat /\ charges[i].vatBps \in Nat
                 /\ charges[i].category \in Range(CategoryOrder)
                 /\ line.id = charges[i].id /\ line.category = charges[i].category
                 /\ line.sell = sell /\ line.vat = LineVatCents(sell, charges[i].vatBps)
<1>1. /\ Len(charges) \in Nat /\ DOMAIN charges = 1 .. Len(charges)
      /\ \A i \in DOMAIN charges : charges[i] \in Range(charges)
  <2>1. charges \in Seq(Range(charges))
    BY DEF Billable
  <2> QED BY <2>1 DEF Range
<1>2. \A i \in DOMAIN charges :
        /\ {"id", "sell", "vatBps", "category"} \subseteq DOMAIN charges[i]
        /\ charges[i].sell \in Nat /\ charges[i].vatBps \in Nat
        /\ charges[i].category \in Range(CategoryOrder)
  BY <1>1 DEF Billable
<1>3. DOMAIN DocumentLines(type, charges) = DOMAIN charges
  BY DEF DocumentLines
<1>4. ASSUME NEW i \in DOMAIN charges
      PROVE  LET line == DocumentLines(type, charges)[i]
                 sell == IF type = "CREDIT_NOTE" THEN -charges[i].sell ELSE charges[i].sell
             IN /\ line.id = charges[i].id /\ line.category = charges[i].category
                /\ line.sell = sell /\ line.vat = LineVatCents(sell, charges[i].vatBps)
  BY <1>2 DEF DocumentLines
<1> QED BY <1>1, <1>2, <1>3, <1>4

\* VAT is a whole number of cents, and that of a line that is reversed cancels it.
LEMMA VatReverses ==
  ASSUME NEW sell \in Nat, NEW bps \in Nat
  PROVE  /\ LineVatCents(sell, bps) \in Nat
         /\ LineVatCents(-sell, bps) = -LineVatCents(sell, bps)
<1>1. Share(sell, bps) \in Nat
  <2> DEFINE part == sell * bps
  <2>1. part \in Nat
    OBVIOUS
  <2> HIDE DEF part
  <2>2. (2 * part + 10000) \div (2 * 10000) \in Nat
    BY <2>1
  <2> QED BY <2>2 DEF Share, RoundHalfUp, part
<1>2. CASE sell = 0
  <2>1. Share(0, bps) = 0
    <3>1. 0 * bps = 0
      OBVIOUS
    <3>2. RoundHalfUp(0, 10000) = 0
      BY DEF RoundHalfUp
    <3> QED BY <3>1, <3>2 DEF Share
  <2> QED BY <1>2, <2>1 DEF LineVatCents
<1>3. CASE sell # 0
  <2>1. -sell < 0 /\ ~(sell < 0) /\ -(-sell) = sell
    BY <1>3
  <2> QED BY <1>1, <2>1 DEF LineVatCents
<1> QED BY <1>2, <1>3

\* Every total of a document is a sum over its lines.
LEMMA TotalIs ==
  ASSUME NEW lines, NEW held
  PROVE  /\ Totals(lines, held, 0).total
              = SumFunctionOnSet([i \in DOMAIN lines |-> lines[i].sell], DOMAIN lines)
                + SumFunctionOnSet([i \in DOMAIN lines |-> lines[i].vat], DOMAIN lines)
         /\ Totals(lines, held, 0).disputed
              = SumFunctionOnSet([i \in DOMAIN lines |->
                                   IF lines[i].id \in held THEN lines[i].sell + lines[i].vat
                                   ELSE 0], DOMAIN lines)
BY DEF Totals, Total, SumFunction

LEMMA StatedIs ==
  ASSUME NEW charges
  PROVE  Stated(charges).total
           = SumFunctionOnSet([i \in DOMAIN charges |-> charges[i].sell], DOMAIN charges)
             + SumFunctionOnSet([i \in DOMAIN charges |->
                                  LineVatCents(charges[i].sell, charges[i].vatBps)],
                                DOMAIN charges)
BY DEF Stated, Total, SumFunction

\* The categories are listed once each.
LEMMA CategoriesApart ==
  /\ Len(CategoryOrder) \in Nat /\ DOMAIN CategoryOrder = 1 .. Len(CategoryOrder)
  /\ \A m, n \in 1 .. Len(CategoryOrder) : CategoryOrder[m] = CategoryOrder[n] => m = n
BY DEF CategoryOrder

\* The sections of a document come to what its lines come to: every line is in one of
\* them, and in one only.
LEMMA SectionsAddUp ==
  ASSUME NEW lines, NEW N \in Nat, DOMAIN lines = 1 .. N,
         \A i \in 1 .. N : /\ lines[i].sell \in Int /\ lines[i].vat \in Int
                           /\ lines[i].category \in Range(CategoryOrder)
  PROVE  Total(Sections(lines), LAMBDA s : s.subtotal + s.vat)
           = SumFunctionOnSet([i \in 1 .. N |-> lines[i].sell], 1 .. N)
             + SumFunctionOnSet([i \in 1 .. N |-> lines[i].vat], 1 .. N)
<1> DEFINE S == 1 .. N
           sells == [i \in S |-> lines[i].sell]
           vats == [i \in S |-> lines[i].vat]
           both == [i \in S |-> sells[i] + vats[i]]
           top == Len(CategoryOrder)
           used == {n \in DOMAIN CategoryOrder : InCategory(lines, CategoryOrder[n]) # {}}
           K == 1 .. Cardinality(used)
           Of(k) == CategoryOrder[Nth(used, k)]
           part == [k \in K |-> InCategory(lines, Of(k))]
           sum == [k \in K |-> SumFunctionOnSet(sells, part[k]) + SumFunctionOnSet(vats, part[k])]
<1>1. IsFiniteSet(S) /\ \A i \in S : sells[i] \in Int /\ vats[i] \in Int /\ both[i] = sells[i] + vats[i]
  BY FS_Interval
<1>2. top \in Nat /\ used \in SUBSET (1 .. top)
  BY CategoriesApart
<1>3. Cardinality(used) \in Nat /\ IsFiniteSet(K)
  <2>1. IsFiniteSet(1 .. top)
    BY <1>2, FS_Interval
  <2>2. IsFiniteSet(used)
    <3> HIDE DEF used, top
    <3> QED BY <1>2, <2>1, FS_Subset
  <2>3. Cardinality(used) \in Nat
    <3> HIDE DEF used
    <3> QED BY <2>2, FS_CardinalityType
  <2> HIDE DEF used
  <2> QED BY <2>3, FS_Interval
<1>4. \A k \in K : part[k] \subseteq S
  BY DEF InCategory
<1>5. Total(Sections(lines), LAMBDA s : s.subtotal + s.vat) = SumFunctionOnSet(sum, K)
  <2>1. DOMAIN Sections(lines) = K
    BY DEF Sections
  <2>2. \A k \in K : /\ Sections(lines)[k].subtotal = SumFunctionOnSet(sells, part[k])
                     /\ Sections(lines)[k].vat = SumFunctionOnSet(vats, part[k])
    BY DEF Sections
  <2>3. [k \in DOMAIN Sections(lines) |-> Sections(lines)[k].subtotal + Sections(lines)[k].vat] = sum
    <3> HIDE DEF K, sells, vats, part
    <3> QED BY <2>1, <2>2
  <2>4. DOMAIN sum = K
    OBVIOUS
  <2> HIDE DEF sum, K
  <2> QED BY <2>3, <2>4, Zenon DEF Total, SumFunction
<1> HIDE DEF sells, vats, both
<1>6. \A k \in K : sum[k] = SumFunctionOnSet(both, part[k])
  <2> SUFFICES ASSUME NEW k \in K PROVE sum[k] = SumFunctionOnSet(both, part[k])
    OBVIOUS
  <2>1. IsFiniteSet(part[k]) /\ part[k] \subseteq S
    <3> HIDE DEF part, K
    <3> QED BY <1>1, <1>4, FS_Subset
  <2>2. sum[k] = SumFunctionOnSet(sells, part[k]) + SumFunctionOnSet(vats, part[k])
    OBVIOUS
  <2> HIDE DEF part, sum, K
  <2>3. SumFunctionOnSet(both, part[k]) = SumFunctionOnSet(sells, part[k]) + SumFunctionOnSet(vats, part[k])
    BY <1>1, <2>1, SumPlus
  <2> QED BY <2>2, <2>3
<1>7. \A k, l \in K : k # l => part[k] \cap part[l] = {}
  <2> SUFFICES ASSUME NEW k \in K, NEW l \in K, NEW i \in part[k], i \in part[l] PROVE k = l
    OBVIOUS
  <2>1. Nth(used, k) \in 1 .. top /\ Nth(used, l) \in 1 .. top
    <3> HIDE DEF used, top
    <3> QED BY <1>2, NthPlace
  <2>2. lines[i].category = Of(k) /\ lines[i].category = Of(l)
    BY DEF InCategory
  <2>3. Nth(used, k) = Nth(used, l)
    <3> HIDE DEF used
    <3> QED BY <2>1, <2>2, CategoriesApart
  <2> HIDE DEF used, top
  <2> QED BY <1>2, <2>3, NthApart
<1>8. \A i \in S : \E k \in K : i \in part[k]
  <2> SUFFICES ASSUME NEW i \in S PROVE \E k \in K : i \in part[k]
    OBVIOUS
  <2>1. PICK n \in 1 .. top : lines[i].category = CategoryOrder[n]
    BY CategoriesApart DEF Range
  <2>2. i \in InCategory(lines, CategoryOrder[n])
    BY <2>1 DEF InCategory
  <2>3. n \in used
    BY <2>2, CategoriesApart
  <2>4. PICK k \in K : Nth(used, k) = n
    <3> HIDE DEF used, top
    <3> QED BY <1>2, <2>3, PlaceIsNth
  <2>5. Of(k) = CategoryOrder[n]
    BY <2>4
  <2> QED BY <2>2, <2>5
<1>9. SumFunctionOnSet(sum, K) = SumFunctionOnSet(both, S)
  <2>1. \A i \in S : both[i] \in Int
    BY <1>1
  <2> HIDE DEF part, sum, K, S
  <2> QED BY <1>1, <1>3, <1>4, <1>6, <1>7, <1>8, <2>1, SumParts
<1>10. SumFunctionOnSet(both, S) = SumFunctionOnSet(sells, S) + SumFunctionOnSet(vats, S)
  <2> HIDE DEF S
  <2> QED BY <1>1, SumPlus
<1> HIDE DEF sum, K
<1>11. Total(Sections(lines), LAMBDA s : s.subtotal + s.vat)
         = SumFunctionOnSet(sells, S) + SumFunctionOnSet(vats, S)
  BY <1>5, <1>9, <1>10, Zenon
<1> QED BY <1>11, Zenon DEF sells, vats

\* The document of any invoice foots, whatever part of it is held back: its sections
\* add up to the totals that were stored with it, what is held back is part of them,
\* and its credit note cancels both to the cent.
THEOREM EveryDocumentFoots == \A charges, held : Billable(charges) => Foots(charges, held)
<1> SUFFICES ASSUME NEW charges, Billable(charges), NEW held PROVE Foots(charges, held)
  OBVIOUS
<1> DEFINE N == Len(charges)
           S == 1 .. N
           lines == DocumentLines("FREIGHT_INVOICE", charges)
           back == DocumentLines("CREDIT_NOTE", charges)
           sells == [i \in S |-> lines[i].sell]
           vats == [i \in S |-> lines[i].vat]
           both == [i \in S |-> sells[i] + vats[i]]
           kept == [i \in S |-> IF lines[i].id \in held THEN lines[i].sell + lines[i].vat ELSE 0]
           rest == [i \in S |-> both[i] - kept[i]]
           sellsBack == [i \in S |-> back[i].sell]
           vatsBack == [i \in S |-> back[i].vat]
           keptBack == [i \in S |-> IF back[i].id \in held THEN back[i].sell + back[i].vat ELSE 0]
<1>1. N \in Nat /\ DOMAIN charges = S /\ DOMAIN lines = S /\ DOMAIN back = S /\ IsFiniteSet(S)
  BY DocumentLine, FS_Interval
<1>2. \A i \in S : /\ lines[i].id = charges[i].id /\ back[i].id = charges[i].id
                   /\ lines[i].category \in Range(CategoryOrder)
                   /\ lines[i].sell = charges[i].sell /\ lines[i].sell \in Nat
                   /\ lines[i].vat = LineVatCents(charges[i].sell, charges[i].vatBps)
                   /\ lines[i].vat \in Nat
                   /\ back[i].sell = -lines[i].sell /\ back[i].vat = -lines[i].vat
  <2> SUFFICES ASSUME NEW i \in S
               PROVE  /\ lines[i].id = charges[i].id /\ back[i].id = charges[i].id
                      /\ lines[i].category \in Range(CategoryOrder)
                      /\ lines[i].sell = charges[i].sell /\ lines[i].sell \in Nat
                      /\ lines[i].vat = LineVatCents(charges[i].sell, charges[i].vatBps)
                      /\ lines[i].vat \in Nat
                      /\ back[i].sell = -lines[i].sell /\ back[i].vat = -lines[i].vat
    OBVIOUS
  <2>1. /\ charges[i].sell \in Nat /\ charges[i].vatBps \in Nat
        /\ charges[i].category \in Range(CategoryOrder)
        /\ lines[i].id = charges[i].id /\ lines[i].category = charges[i].category
        /\ lines[i].sell = charges[i].sell
        /\ lines[i].vat = LineVatCents(charges[i].sell, charges[i].vatBps)
    <3> HIDE DEF lines, S
    <3> QED BY <1>1, DocumentLine DEF lines
  <2>2. /\ back[i].id = charges[i].id /\ back[i].sell = -charges[i].sell
        /\ back[i].vat = LineVatCents(-charges[i].sell, charges[i].vatBps)
    <3> HIDE DEF back, S
    <3> QED BY <1>1, DocumentLine DEF back
  <2> HIDE DEF lines, back
  <2>3. /\ LineVatCents(charges[i].sell, charges[i].vatBps) \in Nat
        /\ LineVatCents(-charges[i].sell, charges[i].vatBps)
             = -LineVatCents(charges[i].sell, charges[i].vatBps)
    BY <2>1, VatReverses
  <2> QED BY <2>1, <2>2, <2>3
<1> HIDE DEF lines, back, S, N
<1>3. \A i \in S : /\ sells[i] \in Nat /\ vats[i] \in Nat /\ both[i] = sells[i] + vats[i]
                   /\ kept[i] \in Nat /\ rest[i] \in Nat /\ both[i] = kept[i] + rest[i]
                   /\ sellsBack[i] = -sells[i] /\ vatsBack[i] = -vats[i] /\ keptBack[i] = -kept[i]
  BY <1>2
<1> DEFINE Sum(f) == SumFunctionOnSet(f, S)
<1>4. /\ Totals(lines, held, 0).total = Sum(sells) + Sum(vats)
      /\ Totals(lines, held, 0).disputed = Sum(kept)
  BY <1>1, TotalIs, Zenon
<1>5. /\ Totals(back, held, 0).total = Sum(sellsBack) + Sum(vatsBack)
      /\ Totals(back, held, 0).disputed = Sum(keptBack)
  BY <1>1, TotalIs, Zenon
<1>6. Stated(charges).total = Sum(sells) + Sum(vats)
  <2> DEFINE billed == [i \in S |-> charges[i].sell]
             taxed == [i \in S |-> LineVatCents(charges[i].sell, charges[i].vatBps)]
  <2>1. Stated(charges).total = Sum(billed) + Sum(taxed)
    BY <1>1, StatedIs, Zenon
  <2>2. billed = sells /\ taxed = vats
    BY <1>2
  <2> QED BY <2>1, <2>2
<1>7. Total(Sections(lines), LAMBDA s : s.subtotal + s.vat) = Sum(sells) + Sum(vats)
  <2>1. /\ DOMAIN lines = 1 .. N
        /\ \A i \in 1 .. N : /\ lines[i].sell \in Int /\ lines[i].vat \in Int
                             /\ lines[i].category \in Range(CategoryOrder)
    BY <1>1, <1>2 DEF S
  <2>2. Total(Sections(lines), LAMBDA s : s.subtotal + s.vat)
          = SumFunctionOnSet([i \in 1 .. N |-> lines[i].sell], 1 .. N)
            + SumFunctionOnSet([i \in 1 .. N |-> lines[i].vat], 1 .. N)
    BY <1>1, <2>1, SectionsAddUp, Zenon
  <2> QED BY <2>2, Zenon DEF S
<1> HIDE DEF sells, vats, both, kept, rest, sellsBack, vatsBack, keptBack
<1>8. Sum(sells) \in Nat /\ Sum(vats) \in Nat /\ Sum(kept) \in Nat /\ Sum(rest) \in Nat
  BY <1>1, <1>3, SumNat
<1>9. Sum(both) = Sum(sells) + Sum(vats) /\ Sum(both) = Sum(kept) + Sum(rest)
  BY <1>1, <1>3, SumPlus
<1>10. Sum(sells) + Sum(sellsBack) = 0 /\ Sum(vats) + Sum(vatsBack) = 0 /\ Sum(kept) + Sum(keptBack) = 0
  BY <1>1, <1>3, SumMinus
<1>11. Sum(sellsBack) \in Int /\ Sum(vatsBack) \in Int
  BY <1>1, <1>3, SumInt
<1> HIDE DEF Sum
<1>12. Sum(kept) \in 0 .. Sum(sells) + Sum(vats)
  BY <1>8, <1>9
<1>13. (Sum(sells) + Sum(vats)) + (Sum(sellsBack) + Sum(vatsBack)) = 0
  BY <1>8, <1>10, <1>11
<1> QED BY <1>4, <1>5, <1>6, <1>7, <1>10, <1>12, <1>13, Zenon DEF Foots, lines, back

-----------------------------------------------------------------------------
(* What is quoted.                                                         *)

\* Rules as the tenant's staff may store them, which are told apart by when they were
\* created, cards as carriers may publish them, told apart by their ids, and requests.
Rules(rs) ==
  /\ IsFiniteSet(rs)
  /\ \A r \in rs : r.bps \in Nat /\ r.floor \in Nat /\ r.created \in Nat
  /\ \A r, s \in rs : r.created = s.created => r = s

RateCards(cs) ==
  /\ IsFiniteSet(cs)
  /\ \A c \in cs : /\ c.buy \in Nat /\ c.id \in Nat
                   /\ c.surcharges \in Seq(Range(c.surcharges))
                   /\ \A s \in Range(c.surcharges) : s.amount \in Nat
  /\ \A c, d \in cs : c.id = d.id => c = d

Asked(req) ==
  /\ req.quantity \in Nat \ {0}
  /\ req.cargo \in {"GENERAL", "HAZARDOUS", "REEFER", "PERISHABLE", "OVERSIZED", "VALUABLE",
                   "LIVE_ANIMALS"}
  /\ req.urgency \in {"ECONOMY", "STANDARD", "EXPRESS", "CRITICAL"}

\* One rule wins.
LEMMA RuleResolved ==
  ASSUME NEW rs, Rules(rs), NEW req, Applicable(rs, req) # {}
  PROVE  LET rule == ResolveMarginRule(rs, req)
         IN /\ rule \in Applicable(rs, req)
            /\ \A r \in Applicable(rs, req) \ {rule} : Beats(rule, r)
<1> DEFINE S == Applicable(rs, req)
           score == [r \in S |-> Score(r)]
           made == [r \in S |-> r.created]
<1>1. IsFiniteSet(S) /\ \A r \in S : r.created \in Nat
  BY FS_Subset DEF Rules, Applicable
<1>2. \A r : Score(r) \in Nat
  BY DEF Score
<1>3. PICK r \in S : \A s \in S : score[s] < score[r] \/ (score[s] = score[r] /\ made[s] <= made[r])
  <2>1. \A s \in S : score[s] \in Int /\ made[s] \in Int
    BY <1>1, <1>2
  <2> HIDE DEF score, made, S
  <2> QED BY <1>1, <2>1, GreatestOfTwo DEF S
<1>4. \A s \in S \ {r} : Beats(r, s)
  <2> SUFFICES ASSUME NEW s \in S \ {r} PROVE Beats(r, s)
    OBVIOUS
  <2>1. r.created # s.created
    BY DEF Rules, Applicable
  <2>2. Score(s) < Score(r) \/ (Score(s) = Score(r) /\ s.created <= r.created)
    BY <1>3
  <2> HIDE DEF S
  <2>3. r.created \in Nat /\ s.created \in Nat
    BY <1>1
  <2> QED BY <1>2, <2>1, <2>2, <2>3 DEF Beats
<1> HIDE DEF S
<1> QED BY <1>3, <1>4, Zenon DEF ResolveMarginRule, S

\* And one card.
LEMMA CardChosen ==
  ASSUME NEW cs, RateCards(cs), cs # {}
  PROVE  /\ Cheapest(cs) \in cs
         /\ \A d \in cs : Cheapest(cs).buy <= d.buy
<1> DEFINE cost == [c \in cs |-> -c.buy]
           rank == [c \in cs |-> -c.id]
<1>1. PICK c \in cs : \A d \in cs : cost[d] < cost[c] \/ (cost[d] = cost[c] /\ rank[d] <= rank[c])
  <2>1. IsFiniteSet(cs) /\ \A d \in cs : cost[d] \in Int /\ rank[d] \in Int
    BY DEF RateCards
  <2> HIDE DEF cost, rank
  <2> QED BY <2>1, GreatestOfTwo
<1>2. \A d \in cs \ {c} : c.buy < d.buy \/ (c.buy = d.buy /\ c.id < d.id)
  <2> SUFFICES ASSUME NEW d \in cs \ {c}
               PROVE  c.buy < d.buy \/ (c.buy = d.buy /\ c.id < d.id)
    OBVIOUS
  <2>1. -d.buy < -c.buy \/ (-d.buy = -c.buy /\ -d.id <= -c.id)
    BY <1>1
  <2>2. /\ d.buy \in Nat /\ c.buy \in Nat /\ d.id \in Nat /\ c.id \in Nat
        /\ d.id # c.id
    BY DEF RateCards
  <2> QED BY <2>1, <2>2
<1>3. /\ Cheapest(cs) \in cs
      /\ \A d \in cs \ {Cheapest(cs)} : \/ Cheapest(cs).buy < d.buy
                                        \/ Cheapest(cs).buy = d.buy /\ Cheapest(cs).id < d.id
  BY <1>2, Zenon DEF Cheapest
<1> QED BY <1>3 DEF RateCards

\* A share of an amount is one, a margin takes nothing off a price, and the floor is
\* kept where it applies.
LEMMA ShareIs ==
  ASSUME NEW n \in Nat, NEW bps \in Nat
  PROVE  Share(n, bps) \in Nat
<1> DEFINE x == n * bps
<1>1. x \in Nat
  OBVIOUS
<1> HIDE DEF x
<1>2. (2 * x + 10000) \div (2 * 10000) \in Nat
  BY <1>1
<1> QED BY <1>2 DEF Share, RoundHalfUp, x

LEMMA MarginAdds ==
  ASSUME NEW buy \in Nat, NEW rule, rule.bps \in Nat, rule.floor \in Nat,
         NEW withFloor \in BOOLEAN
  PROVE  /\ ApplyMargin(buy, rule, withFloor) \in Nat
         /\ ApplyMargin(buy, rule, withFloor) >= buy
         /\ withFloor => ApplyMargin(buy, rule, withFloor) >= buy + rule.floor
<1> DEFINE x == buy * rule.bps
           marked == RoundHalfUp(buy * (10000 + rule.bps), 10000)
<1>1. x \in Nat /\ buy * (10000 + rule.bps) = 10000 * buy + x
  OBVIOUS
<1>2. marked \in Nat /\ marked >= buy
  <2>1. marked = (2 * (10000 * buy + x) + 10000) \div (2 * 10000)
    BY <1>1 DEF RoundHalfUp
  <2> HIDE DEF marked, x
  <2>2. (2 * (10000 * buy + x) + 10000) \div (2 * 10000) \in Nat
    BY <1>1
  <2>3. (2 * (10000 * buy + x) + 10000) \div (2 * 10000) >= buy
    BY <1>1
  <2> QED BY <2>1, <2>2, <2>3
<1>3. ApplyMargin(buy, rule, withFloor)
        = IF withFloor THEN Greater(marked, buy + rule.floor) ELSE marked
  BY DEF ApplyMargin
<1> HIDE DEF marked
<1> QED BY <1>2, <1>3 DEF Greater

\* What is asked of a line of a quote.
Sold(line) ==
  /\ line.buy \in Nat /\ line.sell \in Nat /\ line.sell >= line.buy
  /\ line.quantity \in Nat \ {0}

LEMMA LineSold ==
  ASSUME NEW code, NEW quantity \in Nat \ {0}, NEW buy \in Nat, NEW sell \in Nat, sell >= buy,
         NEW currency
  PROVE  Sold(QLine(code, quantity, buy, sell, currency))
BY DEF Sold, QLine

LEMMA UpliftSold ==
  ASSUME NEW code, NEW bps \in Nat, NEW card, card.buy \in Nat,
         NEW rule, rule.bps \in Nat, rule.floor \in Nat,
         NEW req, req.quantity \in Nat \ {0}
  PROVE  \E S : /\ UpliftLine(code, bps, card, rule, req) \in Seq(S)
                /\ \A line \in S : Sold(line)
<1> DEFINE buy == Share(card.buy, bps)
           line == QLine(code, req.quantity, buy, ApplyMargin(buy, rule, FALSE), card.currency)
<1>1. buy \in Nat
  BY ShareIs
<1>2. Sold(line)
  <2> HIDE DEF buy
  <2> QED BY <1>1, MarginAdds, LineSold
<1>3. UpliftLine(code, bps, card, rule, req) = IF bps > 0 THEN <<line>> ELSE <<>>
  BY DEF UpliftLine
<1> HIDE DEF line
<1>4. UpliftLine(code, bps, card, rule, req) \in Seq({line})
  <2>1. CASE bps > 0
    BY <1>3, <2>1
  <2>2. CASE ~(bps > 0)
    <3>1. UpliftLine(code, bps, card, rule, req) = <<>>
      BY <1>3, <2>2
    <3> QED BY <3>1
  <2> QED BY <2>1, <2>2
<1> QED BY <1>2, <1>4

LEMMA SurchargesSold ==
  ASSUME NEW card, card.buy \in Nat, card.surcharges \in Seq(Range(card.surcharges)),
         \A s \in Range(card.surcharges) : s.amount \in Nat,
         NEW rule, rule.bps \in Nat, rule.floor \in Nat,
         NEW req, req.quantity \in Nat \ {0}
  PROVE  \E S : /\ [i \in DOMAIN card.surcharges |->
                     SurchargeLine(card.surcharges[i], card, rule, req)] \in Seq(S)
                /\ \A line \in S : Sold(line)
<1> DEFINE list == card.surcharges
           Line(s) == SurchargeLine(s, card, rule, req)
           all == {Line(s) : s \in Range(list)}
<1>1. ASSUME NEW s \in Range(list) PROVE Sold(Line(s))
  <2> DEFINE buy == IF s.basis = "PERCENT_OF_FREIGHT" THEN Share(card.buy, s.amount) ELSE s.amount
             quantity == IF s.basis = "PER_CONTAINER" THEN req.quantity ELSE 1
             currency == IF s.basis = "PERCENT_OF_FREIGHT" THEN card.currency ELSE s.currency
  <2>1. buy \in Nat /\ quantity \in Nat \ {0}
    <3>1. s.amount \in Nat
      OBVIOUS
    <3>2. Share(card.buy, s.amount) \in Nat
      BY <3>1, ShareIs
    <3> QED BY <3>1, <3>2
  <2>2. Line(s) = QLine(s.code, quantity, buy, ApplyMargin(buy, rule, FALSE), currency)
    BY DEF SurchargeLine
  <2> HIDE DEF buy, quantity, currency, Line
  <2> QED BY <2>1, <2>2, MarginAdds, LineSold
<1>2. Len(list) \in Nat /\ DOMAIN list = 1 .. Len(list)
  OBVIOUS
<1>3. \A i \in DOMAIN list : Line(list[i]) \in all
  BY DEF Range
<1> HIDE DEF Line, all
<1>4. [i \in DOMAIN list |-> Line(list[i])] \in Seq(all)
  BY <1>2, <1>3
<1> QED BY <1>1, <1>4 DEF all, Line

\* Whatever a request, the cards and the tenant's rules are, what is quoted comes of the
\* cheapest card that is in time and of the one rule that names most and is newest of
\* those; the freight brings in the rule's floor, no line is sold for less than it is
\* bought for, and every line is such as an audit can hold an invoice to.
THEOREM QuotedAtAMargin ==
  ASSUME NEW req, Asked(req), NEW cs, RateCards(cs), NEW rs, Rules(rs),
         Pricing(req, cs, rs) = "QUOTED"
  PROVE  LET card == Cheapest(InTime(cs, req))
             rule == ResolveMarginRule(rs, req)
             quote == BuildQuote(req, cs, rs)
         IN /\ card \in InTime(cs, req) /\ \A c \in InTime(cs, req) : card.buy <= c.buy
            /\ rule \in Applicable(rs, req)
            /\ \A r \in Applicable(rs, req) \ {rule} : Beats(rule, r)
            /\ quote \in Seq(Range(quote)) /\ Len(quote) >= 1
            /\ quote[1].code = "FRT" /\ quote[1].sell >= card.buy + rule.floor
            /\ \A line \in Range(quote) : Sold(line)
<1> DEFINE card == Cheapest(InTime(cs, req))
           rule == ResolveMarginRule(rs, req)
           quote == BuildQuote(req, cs, rs)
<1>1. InTime(cs, req) # {} /\ Applicable(rs, req) # {}
  BY DEF Pricing
<1>2. card \in InTime(cs, req) /\ \A c \in InTime(cs, req) : card.buy <= c.buy
  <2>1. InTime(cs, req) \subseteq cs
    BY DEF InTime, Eligible
  <2>2. RateCards(InTime(cs, req))
    BY <2>1, FS_Subset DEF RateCards
  <2> QED BY <1>1, <2>2, CardChosen
<1>3. rule \in Applicable(rs, req) /\ \A r \in Applicable(rs, req) \ {rule} : Beats(rule, r)
  BY <1>1, RuleResolved
<1>4. /\ card.buy \in Nat /\ card.surcharges \in Seq(Range(card.surcharges))
      /\ \A s \in Range(card.surcharges) : s.amount \in Nat
      /\ rule.bps \in Nat /\ rule.floor \in Nat
  <2>1. card \in cs
    BY <1>2 DEF InTime, Eligible
  <2>2. rule \in rs
    BY <1>3 DEF Applicable
  <2> HIDE DEF card, rule
  <2> QED BY <2>1, <2>2 DEF RateCards, Rules
<1> DEFINE freight == QLine("FRT", req.quantity, card.buy, ApplyMargin(card.buy, rule, TRUE), card.currency)
           handling == UpliftLine("HND", CargoUpliftBps(req.cargo), card, rule, req)
           service == UpliftLine("SVC", UrgencyUpliftBps(req.urgency), card, rule, req)
           added == [i \in DOMAIN card.surcharges |-> SurchargeLine(card.surcharges[i], card, rule, req)]
<1>5. quote = <<freight>> \o handling \o service \o added
  BY DEF BuildQuote, QuoteLines
<1> HIDE DEF card, rule
<1>6. /\ Sold(freight) /\ freight.code = "FRT" /\ freight.sell >= card.buy + rule.floor
  <2>1. /\ ApplyMargin(card.buy, rule, TRUE) \in Nat /\ ApplyMargin(card.buy, rule, TRUE) >= card.buy
        /\ ApplyMargin(card.buy, rule, TRUE) >= card.buy + rule.floor
    BY <1>4, MarginAdds
  <2>2. Sold(freight)
    BY <1>4, <2>1, LineSold DEF Asked
  <2> QED BY <2>1, <2>2 DEF QLine
<1>7. CargoUpliftBps(req.cargo) \in Nat /\ UrgencyUpliftBps(req.urgency) \in Nat
  BY DEF Asked, CargoUpliftBps, UrgencyUpliftBps
<1>8. PICK A : handling \in Seq(A) /\ \A line \in A : Sold(line)
  BY <1>4, <1>7, UpliftSold DEF Asked
<1>9. PICK B : service \in Seq(B) /\ \A line \in B : Sold(line)
  BY <1>4, <1>7, UpliftSold DEF Asked
<1>10. PICK C : added \in Seq(C) /\ \A line \in C : Sold(line)
  BY <1>4, SurchargesSold DEF Asked
<1> HIDE DEF freight, handling, service, added
<1> DEFINE all == {freight} \cup A \cup B \cup C
<1>11. \A line \in all : Sold(line)
  BY <1>6, <1>8, <1>9, <1>10
<1>12. <<freight>> \in Seq(all) /\ handling \in Seq(all) /\ service \in Seq(all) /\ added \in Seq(all)
  BY <1>8, <1>9, <1>10
<1> HIDE DEF all, quote
<1>13. quote \in Seq(all) /\ Len(quote) >= 1 /\ quote[1] = freight
  BY <1>5, <1>12
<1>14. quote \in Seq(Range(quote)) /\ Range(quote) \subseteq all
  BY <1>13 DEF Range
<1>15. \A line \in Range(quote) : Sold(line)
  BY <1>11, <1>14
<1> QED BY <1>2, <1>3, <1>6, <1>13, <1>14, <1>15 DEF card, rule, quote
=============================================================================
