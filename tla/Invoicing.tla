------------------------------ MODULE Invoicing ------------------------------
(***************************************************************************)
(* Issuing invoices from the uninvoiced charges of one company's shipments *)
(* (billing/billing.service.ts, issueInvoices), with numbers drawn from    *)
(* the company's own series (billing-profile.service.ts).                  *)
(*                                                                         *)
(* A call reads the shipment's uninvoiced charges and makes sure there is  *)
(* a billing profile, outside any transaction.  Then, for each currency,   *)
(* one transaction draws a number with an UPDATE of the profile, whose row *)
(* lock it keeps until it ends, inserts the invoice, puts its id on every  *)
(* charge it had read, by the charge's id alone, and appends               *)
(* invoice.issued.                                                         *)
(*                                                                         *)
(* The lock makes these transactions take turns, so what one does between  *)
(* drawing and committing is seen by none of the others.  Amounts are left *)
(* out.  MaxCalls and MaxFaults are bounds.                                *)
(***************************************************************************)
EXTENDS Naturals, Sequences

CONSTANTS
  Clients,     \* who may ask for invoices, one call at a time each
  Charges,
  ShipmentOf,  \* ShipmentOf[ch], CurrencyOf[ch]: of each charge
  CurrencyOf,
  MaxCalls,    \* bound: calls
  MaxFaults    \* bound: calls that fail

Nobody == "nobody"

ASSUME InvoicingAssumption ==
  /\ MaxCalls \in Nat /\ MaxFaults \in Nat
  /\ Nobody \notin Clients

VARIABLES
  accrued,   \* rows of charges
  invoiceOf, \* invoiceOf[ch]: charges.invoice_id, 0 while it is null
  invoices,  \* the invoices in the order of their commits; its place is its id
  next,      \* tenant_billing_profiles.next_invoice_number, 0 without a profile
  locked,    \* who holds the lock on the profile's row
  pc,        \* where a client's call stands
  call,      \* which call it is
  todo,      \* the charges it read and has not billed yet
  group,     \* those of the invoice it is issuing
  number,    \* the number it has drawn
  calls,     \* calls so far
  overlap,   \* history: pairs of calls that were under way at the same time
  faults

vars == <<accrued, invoiceOf, invoices, next, locked, pc, call, todo, group,
          number, calls, overlap, faults>>

TypeOK ==
  /\ accrued \subseteq Charges
  /\ invoiceOf \in [Charges -> Nat]
  /\ invoices \in Seq([number : Nat, call : 1 .. MaxCalls, lines : SUBSET Charges])
  /\ next \in Nat
  /\ locked \in Clients \cup {Nobody}
  /\ pc \in [Clients -> {"idle", "charges", "profile", "create", "draw", "issue"}]
  /\ call \in [Clients -> 0 .. MaxCalls]
  /\ todo \in [Clients -> SUBSET Charges]
  /\ group \in [Clients -> SUBSET Charges]
  /\ number \in [Clients -> Nat]
  /\ calls \in 0 .. MaxCalls
  /\ overlap \subseteq (1 .. MaxCalls) \X (1 .. MaxCalls)
  /\ faults \in 0 .. MaxFaults

Init ==
  /\ accrued = {}
  /\ invoiceOf = [ch \in Charges |-> 0]
  /\ invoices = <<>>
  /\ next = 0
  /\ locked = Nobody
  /\ pc = [c \in Clients |-> "idle"]
  /\ call = [c \in Clients |-> 0]
  /\ todo = [c \in Clients |-> {}]
  /\ group = [c \in Clients |-> {}]
  /\ number = [c \in Clients |-> 0]
  /\ calls = 0
  /\ overlap = {}
  /\ faults = 0

-----------------------------------------------------------------------------

At(c, from, to) == pc[c] = from /\ pc' = [pc EXCEPT ![c] = to]

\* The accrual or a manual entry adds a charge, at any time.
Accrue ==
  /\ \E ch \in Charges \ accrued : accrued' = accrued \cup {ch}
  /\ UNCHANGED <<invoiceOf, invoices, next, locked, pc, call, todo, group,
                 number, calls, overlap, faults>>

Start(c) ==
  /\ calls < MaxCalls
  /\ calls' = calls + 1
  /\ At(c, "idle", "charges")
  /\ call' = [call EXCEPT ![c] = calls + 1]
  /\ overlap' = overlap \cup
       {<<call[d], calls + 1>> : d \in {d \in Clients \ {c} : pc[d] # "idle"}}
  /\ UNCHANGED <<accrued, invoiceOf, invoices, next, locked, todo, group,
                 number, faults>>

\* Defect for a mutation run: the select has lost its null check.
AllCharges(s) == {ch \in accrued : ShipmentOf[ch] = s}

Unbilled(s) == {ch \in accrued : ShipmentOf[ch] = s /\ invoiceOf[ch] = 0}

\* The charges of a shipment to bill; a conflict when there are none.
ReadCharges(c) ==
  /\ \E ch \in Charges :
       LET found == Unbilled(ShipmentOf[ch]) IN
         /\ At(c, "charges", IF found = {} THEN "idle" ELSE "profile")
         /\ todo' = [todo EXCEPT ![c] = found]
  /\ UNCHANGED <<accrued, invoiceOf, invoices, next, locked, call, group,
                 number, calls, overlap, faults>>

\* ensure: look for the profile ...
ReadProfile(c) ==
  /\ At(c, "profile", IF next = 0 THEN "create" ELSE "draw")
  /\ UNCHANGED <<accrued, invoiceOf, invoices, next, locked, call, todo, group,
                 number, calls, overlap, faults>>

\* ... and create it, unless another call has done so in between.
CreateProfile(c) ==
  /\ At(c, "create", "draw")
  /\ next' = IF next = 0 THEN 1 ELSE next
  /\ UNCHANGED <<accrued, invoiceOf, invoices, locked, call, todo, group,
                 number, calls, overlap, faults>>

\* Defect for a mutation run: the number is drawn outside the transaction.
DrawOutside(c) ==
  /\ locked = Nobody
  /\ At(c, "draw", "issue")
  /\ \E ch \in todo[c] :
       group' = [group EXCEPT ![c] = {x \in todo[c] : CurrencyOf[x] = CurrencyOf[ch]}]
  /\ number' = [number EXCEPT ![c] = next]
  /\ next' = next + 1
  /\ UNCHANGED <<accrued, invoiceOf, invoices, locked, call, todo, calls, overlap, faults>>

\* The transaction of one currency starts: the number is drawn, which waits for
\* the profile's row.
Draw(c) ==
  /\ locked = Nobody
  /\ At(c, "draw", "issue")
  /\ locked' = c
  /\ \E ch \in todo[c] :
       group' = [group EXCEPT ![c] = {x \in todo[c] : CurrencyOf[x] = CurrencyOf[ch]}]
  /\ number' = [number EXCEPT ![c] = next]
  /\ UNCHANGED <<accrued, invoiceOf, invoices, next, call, todo, calls, overlap, faults>>

Invoice(c) == [number |-> number[c], call |-> call[c], lines |-> group[c]]

\* Defect for a mutation run: one charge of the group is not claimed.
ClaimedButOne(c) == group[c] \ {CHOOSE ch \in group[c] : TRUE}

\* The charges on which the transaction sets invoice_id.
Claimed(c) == group[c]

\* Invoice, claims and the number commit together; then the next currency, or
\* the answer.
Issue(c) ==
  /\ At(c, "issue", IF todo[c] = group[c] THEN "idle" ELSE "draw")
  /\ invoices' = Append(invoices, Invoice(c))
  /\ invoiceOf' = [ch \in Charges |->
                     IF ch \in Claimed(c) THEN Len(invoices) + 1 ELSE invoiceOf[ch]]
  /\ next' = number[c] + 1
  /\ todo' = [todo EXCEPT ![c] = @ \ group[c]]
  /\ locked' = Nobody
  /\ UNCHANGED <<accrued, call, group, number, calls, overlap, faults>>

\* The call fails: the open transaction rolls back, the currencies already issued
\* stay, and the client may ask again.
Fail(c) ==
  /\ pc[c] # "idle"
  /\ faults < MaxFaults
  /\ faults' = faults + 1
  /\ pc' = [pc EXCEPT ![c] = "idle"]
  /\ locked' = IF locked = c THEN Nobody ELSE locked
  /\ UNCHANGED <<accrued, invoiceOf, invoices, next, call, todo, group, number,
                 calls, overlap>>

CallStep(c) ==
  \/ ReadCharges(c) \/ ReadProfile(c) \/ CreateProfile(c) \/ Draw(c) \/ Issue(c)

Next ==
  \/ Accrue
  \/ \E c \in Clients : Start(c) \/ CallStep(c) \/ Fail(c)

Spec == Init /\ [][Next]_vars

-----------------------------------------------------------------------------
(* Properties.                                                             *)

\* The company's invoice numbers are 1, 2, 3, ... in the order in which the
\* invoices appear: no gap, no repeat, whatever calls overlap, fail half way, or
\* race to create the profile.
NumbersGapless == \A i \in DOMAIN invoices : invoices[i].number = i

\* A charge is billed on two invoices only by calls that overlapped: the retry of
\* a call that failed between two currencies, or any later call, bills the rest.
BilledTwiceOnlyByOverlap ==
  \A i, j \in DOMAIN invoices :
    i < j /\ invoices[i].lines \cap invoices[j].lines # {} =>
      \/ <<invoices[i].call, invoices[j].call>> \in overlap
      \/ <<invoices[j].call, invoices[i].call>> \in overlap

\* Charges and invoices agree: a charge is marked exactly when it is on an invoice,
\* with the latest it is on, so nothing is left out and nothing marked in vain.
ChargesReconcile ==
  \A ch \in Charges :
    LET on == {i \in DOMAIN invoices : ch \in invoices[i].lines} IN
      IF on = {} THEN invoiceOf[ch] = 0
      ELSE invoiceOf[ch] \in on /\ \A i \in on : i <= invoiceOf[ch]
=============================================================================
