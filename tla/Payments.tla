------------------------------ MODULE Payments ------------------------------
(***************************************************************************)
(* Payments on one issued invoice (billing/billing.service.ts,             *)
(* recordPayment) and the overdue sweep (markOverdue).                     *)
(*                                                                         *)
(* A delivery of the bank's webhook reads the invoice, and then in one     *)
(* READ COMMITTED transaction inserts the payment unless its reference is  *)
(* already there, sums the payments it can see, writes the status that     *)
(* follows if it differs from the one read before the transaction, and     *)
(* appends payment.received if it inserted.  An insert waits for a         *)
(* transaction that has the same reference; the sum waits for nobody.      *)
(*                                                                         *)
(* Banks redeliver: several deliveries carry one reference, and one that   *)
(* failed is sent again.  MaxFaults bounds the failures.  No code in the   *)
(* repository cancels an invoice.                                          *)
(***************************************************************************)
EXTENDS Naturals, FiniteSets, FiniteSetsExt

CONSTANTS
  Deliveries,  \* webhook calls
  Refs,        \* payment references
  RefOf,       \* RefOf[d]: the reference delivery d carries
  AmountOf,    \* AmountOf[ref], in cents
  Total,       \* the invoice's total, in cents
  MaxFaults    \* bound: failed deliveries

Nobody == "nobody"

ASSUME PaymentAssumption ==
  /\ RefOf \in [Deliveries -> Refs]
  /\ AmountOf \in [Refs -> Nat \ {0}]
  /\ Total \in Nat \ {0}
  /\ MaxFaults \in Nat
  /\ Nobody \notin Deliveries

VARIABLES
  status,     \* invoices.status
  late,       \* the due date is past
  payments,   \* references of the committed payments
  received,   \* received[ref]: payment.received events committed
  locked,     \* the delivery that holds the lock on the invoice's row
  pc,         \* where a delivery stands
  read,       \* the status it read before its transaction
  inserted,   \* whether it inserted the payment, not committed yet
  new,        \* the status it computed
  alone,      \* history: no other delivery was under way at the same time
  faults

vars == <<status, late, payments, received, locked, pc, read, inserted, new,
          alone, faults>>

Unsettled == {"ISSUED", "PART_PAID", "OVERDUE"}
Status == Unsettled \cup {"PAID"}

TypeOK ==
  /\ status \in Status
  /\ late \in BOOLEAN
  /\ payments \subseteq Refs
  /\ received \in [Refs -> Nat]
  /\ locked \in Deliveries \cup {Nobody}
  /\ pc \in [Deliveries -> {"idle", "insert", "sum", "write", "commit", "done"}]
  /\ read \in [Deliveries -> Status]
  /\ inserted \in [Deliveries -> BOOLEAN]
  /\ new \in [Deliveries -> Status]
  /\ alone \in [Deliveries -> BOOLEAN]
  /\ faults \in 0 .. MaxFaults

Init ==
  /\ status = "ISSUED"
  /\ late = FALSE
  /\ payments = {}
  /\ received = [ref \in Refs |-> 0]
  /\ locked = Nobody
  /\ pc = [d \in Deliveries |-> "idle"]
  /\ read = [d \in Deliveries |-> "ISSUED"]
  /\ inserted = [d \in Deliveries |-> FALSE]
  /\ new = [d \in Deliveries |-> "ISSUED"]
  /\ alone = [d \in Deliveries |-> TRUE]
  /\ faults = 0

-----------------------------------------------------------------------------

UnderWay(d) == pc[d] \notin {"idle", "done"}

Move(d, from, to) == pc[d] = from /\ pc' = [pc EXCEPT ![d] = to]

Paid(refs) == MapThenSumSet(LAMBDA ref : AmountOf[ref], refs)

\* The invoice is read, outside any transaction.
Deliver(d) ==
  /\ Move(d, "idle", "insert")
  /\ read' = [read EXCEPT ![d] = status]
  /\ LET others == {e \in Deliveries \ {d} : UnderWay(e)} IN
       alone' = [e \in Deliveries |->
                   CASE e = d -> others = {}
                     [] e \in others -> FALSE
                     [] OTHER -> alone[e]]
  /\ UNCHANGED <<status, late, payments, received, locked, inserted, new, faults>>

\* insert ... on conflict (invoice, reference) do nothing.
Insert(d) ==
  /\ \A e \in Deliveries : RefOf[e] = RefOf[d] => ~inserted[e]
  /\ Move(d, "insert", "sum")
  /\ inserted' = [inserted EXCEPT ![d] = RefOf[d] \notin payments]
  /\ UNCHANGED <<status, late, payments, received, locked, read, new, alone, faults>>

\* Defect for a mutation run: this payment is compared with the total.
SettleByPayment(d) ==
  CASE AmountOf[RefOf[d]] >= Total -> "PAID"
    [] AmountOf[RefOf[d]] < Total -> IF late THEN "OVERDUE" ELSE "PART_PAID"

\* The running total the transaction sees decides: the committed payments and
\* its own.  A part payment does not cure lateness.
Settle(d) ==
  LET mine == IF inserted[d] THEN {RefOf[d]} ELSE {}
      paid == Paid(payments \cup mine)
  IN CASE paid >= Total -> "PAID"
       [] paid < Total /\ paid > 0 -> IF late THEN "OVERDUE" ELSE "PART_PAID"
       [] OTHER -> read[d]

Sum(d) ==
  /\ Move(d, "sum", IF Settle(d) = read[d] THEN "commit" ELSE "write")
  /\ new' = [new EXCEPT ![d] = Settle(d)]
  /\ UNCHANGED <<status, late, payments, received, locked, read, inserted, alone, faults>>

\* update invoices set status where id: waits for the row, then overwrites it.
Write(d) ==
  /\ locked = Nobody
  /\ Move(d, "write", "commit")
  /\ locked' = d
  /\ UNCHANGED <<status, late, payments, received, read, inserted, new, alone, faults>>

\* Defect for a mutation run: payment.received is appended on a duplicate too.
EmitAlways(d) == 1

\* How many events the transaction appends.
Emit(d) == IF inserted[d] THEN 1 ELSE 0

Commit(d) ==
  /\ Move(d, "commit", "done")
  /\ status' = IF locked = d THEN new[d] ELSE status
  /\ locked' = IF locked = d THEN Nobody ELSE locked
  /\ payments' = IF inserted[d] THEN payments \cup {RefOf[d]} ELSE payments
  /\ received' = [received EXCEPT ![RefOf[d]] = @ + Emit(d)]
  /\ inserted' = [inserted EXCEPT ![d] = FALSE]
  /\ UNCHANGED <<late, read, new, alone, faults>>

\* The delivery fails and is rolled back; the bank will send it again.
Fail(d) ==
  /\ UnderWay(d)
  /\ faults < MaxFaults
  /\ faults' = faults + 1
  /\ pc' = [pc EXCEPT ![d] = "idle"]
  /\ locked' = IF locked = d THEN Nobody ELSE locked
  /\ inserted' = [inserted EXCEPT ![d] = FALSE]
  /\ UNCHANGED <<status, late, payments, received, read, new, alone>>

\* Defect for a mutation run: the sweep leaves part-paid invoices out.
SweptIssued == {"ISSUED"}

\* What markOverdue moves.
Swept == {"ISSUED", "PART_PAID"}

\* The sweep is one statement, and waits for the row like any other.
MarkOverdue ==
  /\ late
  /\ locked = Nobody
  /\ status \in Swept
  /\ status' = "OVERDUE"
  /\ UNCHANGED <<late, payments, received, locked, pc, read, inserted, new,
                 alone, faults>>

\* The due date passes.
FallDue ==
  /\ ~late
  /\ late' = TRUE
  /\ UNCHANGED <<status, payments, received, locked, pc, read, inserted, new,
                 alone, faults>>

Step(d) == Deliver(d) \/ Insert(d) \/ Sum(d) \/ Write(d) \/ Commit(d)

Next ==
  \/ \E d \in Deliveries : Step(d) \/ Fail(d)
  \/ MarkOverdue
  \/ FallDue

Spec == Init /\ [][Next]_vars

\* A delivery under way goes on, and the sweep runs every hour.
FairSpec ==
  /\ Spec
  /\ \A d \in Deliveries : WF_vars(UnderWay(d) /\ Step(d))
  /\ WF_vars(MarkOverdue)

-----------------------------------------------------------------------------
(* Properties.                                                             *)

\* However often and however concurrently a reference is delivered, it is
\* credited once and the ledger hears of it once.
OneEventPerPayment ==
  \A ref \in Refs : received[ref] = IF ref \in payments THEN 1 ELSE 0

\* A delivery that overlaps no other leaves the invoice with the status its
\* running total calls for, whatever earlier deliveries and the sweep had left:
\* a lone redelivery repairs what two crossing ones may have got wrong.
LoneDeliverySettles ==
  [][\A d \in Deliveries :
       Commit(d) /\ alone[d] =>
         status' \in IF Paid(payments') >= Total THEN {"PAID"}
                     ELSE {"PART_PAID", "OVERDUE"}]_vars

\* Past its due date an invoice is shown as overdue in the end, unless it is
\* paid; a part payment that crosses the sweep does not hide it for good.
EventuallyOverdue == late ~> status \in {"OVERDUE", "PAID"}

\* What the service and its release notes say: the running total decides, so
\* payments that add up to the total settle the invoice.
SettledByTotal ==
  (\A d \in Deliveries : ~UnderWay(d)) /\ Paid(payments) >= Total => status = "PAID"
=============================================================================
