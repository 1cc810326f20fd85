-------------------------- MODULE ShipmentLifecycle --------------------------
(***************************************************************************)
(* shipments/lifecycle.ts: what an event means to a shipment.  effectOf is *)
(* shared by the pure reducer, which replays a log, and by the projector,  *)
(* which keeps the tables.  An event is its type and the exception code it *)
(* names, if it names one.                                                 *)
(***************************************************************************)
EXTENDS Integers

None == "none"
Plain(t) == [type |-> t, arg |-> None]
Raised(code) == [type |-> "shipment.exception_raised", arg |-> code]

Codes == {"BOOKING_ROLLED", "CUSTOMS_STOP", "CUSTOMS_QUERY",
          "CONGESTION_DELAY", "COMPLIANCE_HOLD"}

Statuses == {"BOOKED", "IN_TRANSIT", "AT_DESTINATION_PORT", "CUSTOMS",
             "ON_DELIVERY", "DELIVERED", "CANCELLED"}

\* None when the event leaves the status alone.
StatusAfter(e) ==
  CASE e.type = "shipment.booked" -> "BOOKED"
    [] e.type = "vessel.departed" -> "IN_TRANSIT"
    [] e.type \in {"vessel.arrived", "container.discharged"} -> "AT_DESTINATION_PORT"
    [] e.type = "entry.submitted" -> "CUSTOMS"
    [] e.type = "container.gated_out" -> "ON_DELIVERY"
    [] e.type = "pod.confirmed" -> "DELIVERED"
    [] OTHER -> None

Raises(e) ==
  CASE e.type = "booking.rolled" -> "BOOKING_ROLLED"
    [] e.type = "entry.queried" -> "CUSTOMS_QUERY"
    [] e.type = "entry.stopped" -> "CUSTOMS_STOP"
    [] e.type = "compliance.hold_placed" -> "COMPLIANCE_HOLD"
    [] e.type = "shipment.exception_raised" -> e.arg
    [] OTHER -> None

Clears(e) ==
  CASE e.type = "vessel.departed" -> {"BOOKING_ROLLED", "CONGESTION_DELAY"}
    [] e.type = "entry.released" -> {"CUSTOMS_STOP", "CUSTOMS_QUERY"}
    [] e.type = "pod.confirmed" -> {"CONGESTION_DELAY"}
    [] e.type = "shipment.exception_cleared" -> {e.arg}
    [] OTHER -> {}

Open(state, e) == (state.open \ Clears(e)) \cup ({Raises(e)} \ {None})

\* The pure reducer, which never leaves a terminal status.
ApplyEvent(state, e) ==
  [status |-> IF StatusAfter(e) # None /\ state.status \notin {"DELIVERED", "CANCELLED"}
                THEN StatusAfter(e) ELSE state.status,
   open   |-> Open(state, e)]

\* What the projector makes of the same event: it sets the status whatever the
\* old one was, and keeps one open row per code.
ProjectEvent(state, e) ==
  [status |-> IF StatusAfter(e) = None THEN state.status ELSE StatusAfter(e),
   open   |-> Open(state, e)]

\* A shipment as its first event leaves it.
Fresh == [status |-> "BOOKED", open |-> {}]

-----------------------------------------------------------------------------
(* shipments/sla-rules.ts: which SLAs a shipment has crossed, as a pure    *)
(* function of when its milestones occurred.                               *)

Never == -1   \* the null of a milestone that has not been recorded

NotDeparted(s, now, sla) == s.departed = Never /\ now - s.booked > sla.departure

\* sla.transit is the fallback transit and the grace: transitDays is always null.
NotArrived(s, now, sla) ==
  s.departed # Never /\ s.arrived = Never /\ now - s.departed > sla.transit

NotReleased(s, now, sla) ==
  s.arrived # Never /\ s.released = Never /\ now - s.arrived > sla.customs

\* The codes the rules give, whatever is open.
Overdue(s, now, sla) ==
  {c \in {"CONGESTION_DELAY"} : NotDeparted(s, now, sla) \/ NotArrived(s, now, sla)}
    \cup {c \in {"CUSTOMS_QUERY"} : NotReleased(s, now, sla)}

\* Defect for a mutation run: open exceptions are not looked at.
DetectRepeated(s, now, sla, open) == Overdue(s, now, sla)

\* Defect for a mutation run: the first rule that applies ends the check.
DetectFirst(s, now, sla, open) ==
  (IF "CONGESTION_DELAY" \in Overdue(s, now, sla) THEN {"CONGESTION_DELAY"}
   ELSE Overdue(s, now, sla)) \ open

\* Each code at most once, and not while it is open.
DetectBreaches(s, now, sla, open) == Overdue(s, now, sla) \ open
=============================================================================
