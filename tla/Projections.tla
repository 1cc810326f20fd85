----------------------------- MODULE Projections -----------------------------
(***************************************************************************)
(* The read models of one shipment, kept by the first three handlers of    *)
(* the event dispatcher: the lifecycle projector (status and open          *)
(* exceptions), the billing accrual (charges, each with a charge.accrued   *)
(* event of its own) and the ledger sink (rows for the Revenue Ontology).  *)
(* The last two registered handlers, signals and notifications, write      *)
(* nothing here.                                                           *)
(*                                                                         *)
(* The module refines EventDispatcher: the last step of a handler is its   *)
(* Handle, the steps before it are stutters there.  A handler autocommits  *)
(* each statement, and the billing handler runs one transaction per        *)
(* charge, so a fault can fall between any two of them.                    *)
(*                                                                         *)
(* The shipment is already booked: shipment.booked was recorded by the     *)
(* transaction that created it, before any other event could name it.      *)
(* MaxArrivals bounds the events that reach it from outside.               *)
(***************************************************************************)
EXTENDS EventDispatcher, ShipmentLifecycle

CONSTANTS
  Arrivals,     \* events services append: records [type, arg]
  MaxArrivals,  \* bound: how many of them are stamped
  Lines,        \* lines of the accepted quote
  Fees          \* platform fees, one per currency; none for most tenants

Lifecycle == 1
Billing == 2
Ledger == 3

Duty == "DTY"
Charges == Lines \cup Fees \cup {Duty}
Accrued(c) == [type |-> "charge.accrued", arg |-> c]
NoEvent == Plain(None)

LedgerTypes == {"credit.signal", "obligation.created",
                "disbursement.incurred", "finance.trigger",
                "receivable.recognised", "receivable.settled"}

ASSUME SpineAssumption ==
  /\ NumHandlers = 3
  /\ Dispatchers \subseteq Writers
  /\ Poison = {}
  /\ MaxArrivals \in Nat
  /\ \A e \in Arrivals : Clears(e) \subseteq Codes /\ Raises(e) \in Codes \cup {None}
  \* Nothing else in the API appends a charge.accrued.
  /\ \A c \in Charges : Accrued(c) \notin Arrivals

VARIABLES
  event,    \* event[p]: what was recorded at position p
  status,   \* shipments.status
  opened,   \* opened[k]: shipment_exceptions rows of code k not cleared
  charges,  \* charges[c]: committed rows for charge c
  ledger,   \* ledger_events, unique on <<source event, type>>
  step,     \* where an instance stands inside the handler it is running
  todo,     \* what that handler still has to write for this row
  saw       \* whether its select found an open exception

dataVars == <<status, opened, charges, ledger>>
localVars == <<step, todo, saw>>
spineVars == <<vars, event, dataVars, localVars>>

-----------------------------------------------------------------------------
(* The log as the timeline replays it.                                     *)

\* replay over the events of S, in recorded order.
Replay(S) ==
  LET state[n \in 0 .. MaxEvents] ==
        IF n = 0 THEN Fresh
        ELSE IF n \in S THEN ApplyEvent(state[n - 1], event[n])
        ELSE state[n - 1]
  IN state[MaxEvents]

-----------------------------------------------------------------------------

SpineTypeOK ==
  /\ event \in [Positions -> {NoEvent} \cup Arrivals \cup {Accrued(c) : c \in Charges}]
  /\ status \in Statuses
  /\ opened \in [Codes -> Nat]
  /\ charges \in [Charges -> Nat]
  /\ ledger \subseteq Positions \X LedgerTypes
  /\ step \in [Dispatchers -> {"begin", "work", "raise", "commit"}]
  /\ todo \in [Dispatchers -> SUBSET (Codes \cup Charges \cup LedgerTypes)]
  /\ saw \in [Dispatchers -> BOOLEAN]

SpineInit ==
  /\ Init
  /\ event = [p \in Positions |-> NoEvent]
  /\ status = "BOOKED"
  /\ opened = [k \in Codes |-> 0]
  /\ charges = [c \in Charges |-> 0]
  /\ ledger = {}
  /\ step = [d \in Dispatchers |-> "begin"]
  /\ todo = [d \in Dispatchers |-> {}]
  /\ saw = [d \in Dispatchers |-> FALSE]

-----------------------------------------------------------------------------
(* Services, adapters and sweeps: one event of this shipment per           *)
(* transaction.                                                            *)

Outside == Writers \ Dispatchers

Arrive(w) ==
  /\ open[w] = {}
  /\ Cardinality({p \in Positions : event[p] \in Arrivals}) < MaxArrivals
  /\ WriterStamp(w)
  /\ \E e \in Arrivals : event' = [event EXCEPT ![clock + 1] = e]
  /\ UNCHANGED <<dataVars, localVars>>

ArrivalCommits(w) ==
  /\ WriterCommit(w)
  /\ UNCHANGED <<event, dataVars, localVars>>

ArrivalRollsBack(w) ==
  /\ WriterRollback(w)
  /\ UNCHANGED <<event, dataVars, localVars>>

-----------------------------------------------------------------------------
(* The handlers.  At(d, h, p): instance d is running handler h on event p. *)

At(d, h, p) == pc[d] = "handle" /\ cur[d] = h /\ p \in batch[d] /\ IsNext(d, p)

Begin(d, work) ==
  /\ step[d] = "begin"
  /\ step' = [step EXCEPT ![d] = "work"]
  /\ todo' = [todo EXCEPT ![d] = work]
  /\ UNCHANGED <<vars, event, saw>>

\* LifecycleProjector: the status is set whatever it was before.
SetStatus(d) ==
  \E p \in batch[d] :
    /\ At(d, Lifecycle, p)
    /\ Begin(d, Clears(event[p]))
    /\ status' = IF StatusAfter(event[p]) = None THEN status ELSE StatusAfter(event[p])
    /\ UNCHANGED <<opened, charges, ledger>>

\* One update per code, on every open row of it.
Clear(d) ==
  /\ pc[d] = "handle" /\ cur[d] = Lifecycle /\ step[d] = "work"
  /\ \E k \in todo[d] :
       /\ opened' = [opened EXCEPT ![k] = 0]
       /\ todo' = [todo EXCEPT ![d] = @ \ {k}]
  /\ UNCHANGED <<vars, event, status, charges, ledger, step, saw>>

\* Defect for a mutation run: the select of open rows is gone.
RaiseUnseen(d) ==
  \E p \in batch[d] :
    /\ At(d, Lifecycle, p)
    /\ step[d] = "work" /\ todo[d] = {}
    /\ Raises(event[p]) # None
    /\ step' = [step EXCEPT ![d] = "raise"]
    /\ UNCHANGED <<vars, event, dataVars, todo, saw>>

\* Select the open rows of the code to raise.
LookForOpen(d) ==
  \E p \in batch[d] :
    /\ At(d, Lifecycle, p)
    /\ step[d] = "work" /\ todo[d] = {}
    /\ Raises(event[p]) # None
    /\ saw' = [saw EXCEPT ![d] = opened[Raises(event[p])] > 0]
    /\ step' = [step EXCEPT ![d] = "raise"]
    /\ UNCHANGED <<vars, event, dataVars, todo>>

\* Insert a row if none was found; that was the handler's last statement.
Raise(d) ==
  \E p \in batch[d] :
    /\ At(d, Lifecycle, p)
    /\ step[d] = "raise"
    /\ opened' = [opened EXCEPT ![Raises(event[p])] = IF saw[d] THEN @ ELSE @ + 1]
    /\ Handle(d)
    /\ step' = [step EXCEPT ![d] = "begin"]
    /\ saw' = [saw EXCEPT ![d] = FALSE]
    /\ UNCHANGED <<event, status, charges, ledger, todo>>

\* What billing accrues on an event, and the check it makes first: any row with
\* the same trigger means the event was accrued before.
AccrualOf(e) ==
  CASE e.type = "vessel.departed" -> Lines \cup Fees
    [] e.type = "entry.released" -> {Duty}
    [] OTHER -> {}

\* Defect for a mutation run: the check compares with the wrong trigger.
OtherTriggerAccrued(e) == \E c \in Charges \ AccrualOf(e) : charges[c] > 0

AlreadyAccrued(e) == \E c \in AccrualOf(e) : charges[c] > 0

StartAccrual(d) ==
  \E p \in batch[d] :
    /\ At(d, Billing, p)
    /\ Begin(d, IF AlreadyAccrued(event[p]) THEN {} ELSE AccrualOf(event[p]))
    /\ UNCHANGED dataVars

\* One transaction per charge, the quoted lines before the fees on them: the row
\* and its charge.accrued are written, seen by nobody yet.
InsertCharge(d) ==
  /\ pc[d] = "handle" /\ cur[d] = Billing /\ step[d] = "work"
  /\ \E c \in todo[d] :
       /\ c \in Fees => todo[d] \cap Lines = {}
       /\ WriterStamp(d)
       /\ event' = [event EXCEPT ![clock + 1] = Accrued(c)]
       /\ todo' = [todo EXCEPT ![d] = @ \ {c}]
  /\ step' = [step EXCEPT ![d] = "commit"]
  /\ UNCHANGED <<dataVars, saw>>

\* The transaction commits: the row and its event appear together.
CommitRows(d) ==
  /\ WriterCommit(d)
  /\ charges' = [c \in Charges |->
                   charges[c] + Cardinality({q \in open[d] : event[q] = Accrued(c)})]

CommitCharge(d) ==
  /\ pc[d] = "handle" /\ step[d] = "commit"
  /\ CommitRows(d)
  /\ step' = [step EXCEPT ![d] = "work"]
  /\ UNCHANGED <<event, status, opened, ledger, todo, saw>>

\* LedgerSink: what mapFreightEvent makes of an event.
Mapped(e) ==
  CASE e.type \in {"shipment.booked", "vessel.departed"} -> {"credit.signal"}
    [] e.type = "charge.accrued" -> {"obligation.created"}
    [] e.type = "entry.released" -> {"disbursement.incurred", "finance.trigger"}
    [] e.type = "pod.confirmed" -> {"finance.trigger"}
    [] e.type = "invoice.issued" -> {"receivable.recognised"}
    [] e.type = "payment.received" -> {"receivable.settled"}
    [] OTHER -> {}

\* Defect for a mutation run: at most one of the mapped rows is inserted.
StartLedgerWithOne(d) ==
  \E p \in batch[d] :
    /\ At(d, Ledger, p)
    /\ \E work \in SUBSET Mapped(event[p]) : Cardinality(work) <= 1 /\ Begin(d, work)
    /\ UNCHANGED dataVars

StartLedger(d) ==
  \E p \in batch[d] :
    /\ At(d, Ledger, p)
    /\ Begin(d, Mapped(event[p]))
    /\ UNCHANGED dataVars

\* Insert one mapped row, doing nothing when the unique index already holds it.
InsertLedger(d) ==
  \E p \in batch[d] :
    /\ At(d, Ledger, p)
    /\ step[d] = "work"
    /\ \E t \in todo[d] :
         /\ ledger' = ledger \cup {<<p, t>>}
         /\ todo' = [todo EXCEPT ![d] = @ \ {t}]
    /\ UNCHANGED <<vars, event, status, opened, charges, step, saw>>

\* Nothing left to write for this row: the handler returns.
Return(d) ==
  \E p \in batch[d] :
    /\ pc[d] = "handle" /\ IsNext(d, p)
    /\ step[d] = "work" /\ todo[d] = {}
    /\ cur[d] = Lifecycle => Raises(event[p]) = None
    /\ Handle(d)
    /\ step' = [step EXCEPT ![d] = "begin"]
    /\ UNCHANGED <<event, dataVars, todo, saw>>

-----------------------------------------------------------------------------
(* The tick around the handlers, and its faults.                           *)

Around(d) ==
  /\ \/ open[d] = {} /\ StartTick(d)
     \/ ReadOffset(d)
     \/ SelectBatch(d)
     \/ DrainDone(d)
     \/ Advance(d)
  /\ UNCHANGED <<event, dataVars, localVars>>

\* A statement fails or the instance stops, in the middle of a handler too.
TickFault(d) ==
  /\ Fault(d)
  /\ step' = [step EXCEPT ![d] = "begin"]
  /\ todo' = [todo EXCEPT ![d] = {}]
  /\ saw' = [saw EXCEPT ![d] = FALSE]
  /\ UNCHANGED <<event, dataVars>>

\* The transaction a fault left open: the database ends it one way or the other
\* before the next tick of that instance.
OrphanCommits(d) ==
  /\ pc[d] = "idle"
  /\ CommitRows(d)
  /\ UNCHANGED <<event, status, opened, ledger, localVars>>

OrphanRollsBack(d) ==
  /\ pc[d] = "idle"
  /\ WriterRollback(d)
  /\ UNCHANGED <<event, dataVars, localVars>>

HandlerStep(d) ==
  \/ SetStatus(d) \/ Clear(d) \/ LookForOpen(d) \/ Raise(d)
  \/ StartAccrual(d) \/ InsertCharge(d) \/ CommitCharge(d)
  \/ StartLedger(d) \/ InsertLedger(d)
  \/ Return(d)

SpineTick(d) == Around(d) \/ HandlerStep(d) \/ OrphanRollsBack(d)

SpineNext ==
  \/ \E w \in Outside : Arrive(w) \/ ArrivalCommits(w) \/ ArrivalRollsBack(w)
  \/ \E d \in Dispatchers : SpineTick(d) \/ TickFault(d) \/ OrphanCommits(d)

SpineSpec == SpineInit /\ [][SpineNext]_spineVars

-----------------------------------------------------------------------------
(* The same with a history.  Every API instance drains the log for itself  *)
(* and nothing keeps two apart, so two of them can project one shipment at *)
(* once, at different places of the log, and the slower one can put an old *)
(* status back or clear what is open again.  The history says which        *)
(* instances have run, whose work another has crossed, and which parts of  *)
(* the tables nobody can vouch for since: the projector never repairs them *)
(* by itself, but a later event that sets one of them does.  It adds       *)
(* nothing to what the program does.                                       *)

VARIABLES
  ran,      \* history: the instances that have started a tick
  crossed,  \* history: the instances another one has joined in this drain
  unsure    \* history: the parts of the tables a crossing may have left wrong

historyVars == <<ran, crossed, unsure>>
crossVars == <<spineVars, historyVars>>

\* The parts of the tables: the status and the open rows of each code.
Parts == {"status"} \cup Codes

\* Instance d stands somewhere in the log: from the watermark it has read to the last
\* row of its batch.
Draining(d) == cur[d] = Lifecycle /\ pc[d] \in {"select", "handle", "advance"}

\* What a statement of d sets outright, whatever was there.
Rewritten(d) ==
  {a \in {"status"} : /\ step[d] = "begin" /\ step'[d] = "work"
                      /\ \E p \in batch[d] : /\ At(d, Lifecycle, p)
                                            /\ StatusAfter(event[p]) # None}
    \cup {k \in todo[d] \ todo'[d] : /\ cur[d] = Lifecycle
                                      /\ step[d] = "work" /\ step'[d] = "work"}

\* A drain is crossed from when another one runs beside it to its end, whichever of
\* them ends first.  What crossed drains write puts all parts in doubt; a statement of
\* an instance that is alone settles the part it sets.
Remember ==
  /\ ran' = ran \cup {d \in Dispatchers : pc'[d] # "idle"}
  /\ crossed' = {d \in Dispatchers :
                   /\ Draining(d)'
                   /\ d \in crossed \/ \E e \in Dispatchers \ {d} : Draining(e)'}
  /\ unsure' = IF crossed = {} THEN unsure \ UNION {Rewritten(d) : d \in Dispatchers}
               ELSE IF UNCHANGED <<status, opened, handled[Lifecycle], offset[Lifecycle]>>
               THEN unsure
               ELSE Parts

CrossInit == SpineInit /\ ran = {} /\ crossed = {} /\ unsure = {}

CrossNext == SpineNext /\ Remember

CrossSpec == CrossInit /\ [][CrossNext]_crossVars

-----------------------------------------------------------------------------
(* Properties.                                                             *)

\* An instance puts a charge in once at most, through a second departure, a replayed
\* row and a transaction whose outcome it never learnt, and opens an exception once at
\* most while it is open.  The checks are reads, so several instances can each pass them
\* once; where only one has run, no row is doubled.
RowsPerInstance ==
  /\ \A c \in Charges : charges[c] <= Cardinality(ran)
  /\ \A k \in Codes : opened[k] <= Cardinality(ran)

\* The projector has caught up, and no instance is inside an event.
Settled ==
  /\ \A p \in committed : p <= offset[Lifecycle]
  /\ \A d \in Dispatchers :
       ~(cur[d] = Lifecycle /\ pc[d] = "handle" /\ step[d] # "begin")

\* Once the projector has caught up, the rows it wrote statement by statement, with
\* replays, are what the pure reducer makes of the events it was given in recorded
\* order, and no code is open twice.  They differ in two things: a milestone handled
\* after the delivery moves the table and not the reducer, and what instances wrote
\* across each other can stay wrong, but only until one of them alone handles an event
\* that moves the status, or clears the code.
ProjectionConverges ==
  Settled =>
    LET state == Replay(handled[Lifecycle]) IN
      /\ \/ "status" \in unsure
         \/ status = state.status
         \/ /\ state.status = "DELIVERED"
            /\ \E p, q \in handled[Lifecycle] :
                 p < q /\ event[p].type = "pod.confirmed" /\ StatusAfter(event[q]) = status
      /\ \A k \in Codes \ unsure : opened[k] = IF k \in state.open THEN 1 ELSE 0

\* The charges and the ledger agree: a charge row exists exactly with its
\* charge.accrued event, and when the sink has been through an event its rows are
\* all there; none is there of an event that never committed.
LedgerReconciles ==
  /\ \A c \in Charges :
       charges[c] = Cardinality({p \in committed : event[p] = Accrued(c)})
  /\ \A p \in Positions : \A t \in LedgerTypes :
       /\ <<p, t>> \in ledger => p \in committed /\ t \in Mapped(event[p])
       /\ p \in handled[Ledger] /\ t \in Mapped(event[p]) => <<p, t>> \in ledger

\* What the handler's documentation says of a departure: once it has been
\* through the event, every quoted line and fee is accrued.
AccrualComplete ==
  \A p \in handled[Billing] : \A c \in AccrualOf(event[p]) : charges[c] > 0
=============================================================================
