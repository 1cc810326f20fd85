-------------------------------- MODULE Watch --------------------------------
(****************************************************************************)
(* The two scheduled sweeps over a shipment: the SLA sweep, which raises an *)
(* exception for a milestone that is overdue, and the carrier confirmation  *)
(* ladder, which chases the carrier of an unconfirmed booking and then      *)
(* tells a person.                                                          *)
(*                                                                          *)
(* Milestones are read from the log, but the status and the open exceptions *)
(* from the board, a projection of the log that lags behind it.  A sweep    *)
(* reads both in one statement and appends in a later one; a scheduler may  *)
(* call it twice at once.                                                   *)
(*                                                                          *)
(* Time is counted in one unit for days and hours: the rules only compare.  *)
(* A call's clock and its read are one step.  Events of this shipment that  *)
(* neither sweep reads are left out.  MaxTime, MaxReports, MaxDelay,        *)
(* MaxBehind and MaxSweepFaults are bounds.                                 *)
(****************************************************************************)
EXTENDS ShipmentLifecycle, FiniteSets, Sequences

CONSTANTS
  SlaCalls,       \* calls of POST scheduled/sla-sweep
  LadderCalls,    \* calls of POST scheduled/carrier-confirmation
  Milestones,     \* event types reported from outside; nothing reports booking.rolled
  Policies,       \* what config/autonomy-policy.yaml may say: see IsPolicy
  MaxTime,        \* bound: how long the clock runs
  MaxReports,     \* bound: milestones reported
  MaxDelay,       \* bound: how long after it occurred a milestone is reported
  MaxBehind,      \* bound: events the projector has not been through
  MaxSweepFaults       \* bound: calls that fail

\* AutonomyPolicySchema: days before a missing departure, arrival (the fallback
\* transit and the grace) and release are an exception; the wait before each chase.
IsPolicy(p) ==
  /\ {p.departure, p.transit, p.customs} \subseteq Nat \ {0}
  /\ p.ladder \in Seq(Nat \ {0}) /\ p.ladder # <<>>

Requested == "carrier.confirmation_requested"

ASSUME WatchAssumption ==
  /\ \A p \in Policies : IsPolicy(p)
  /\ Milestones \cap {"shipment.booked", Requested, "shipment.exception_raised",
                      "booking.rolled"} = {}
  /\ {MaxTime, MaxReports, MaxDelay, MaxBehind, MaxSweepFaults} \subseteq Nat
  /\ SlaCalls \cap LadderCalls = {}

VARIABLES
  policy,     \* the policy loaded at boot
  now,
  history,    \* the shipment's events after shipment.booked, which was at 0
  shown,      \* how many of them the lifecycle projector has been through
  board,      \* the tables it keeps: shipments.status, open shipment_exceptions
  confirmed,  \* whether the booking carries a carrier reference
  sweep,      \* sweep[c]: what a call has decided and not yet appended
  sweepFaults

watchVars == <<policy, now, history, shown, board, confirmed, sweep, sweepFaults>>

SweepCalls == SlaCalls \cup LadderCalls

Departed == {"vessel.departed"}
Arrived == {"vessel.arrived", "container.discharged"}
Released == {"entry.released"}
Settled == {"DELIVERED", "CANCELLED"}
Idle == [kind |-> "idle", codes |-> {}, attempt |-> 0, saw |-> 0]

WatchInit ==
  /\ policy \in Policies
  /\ now = 0
  /\ history = <<>>
  /\ shown = 0
  /\ board = Fresh
  /\ confirmed \in BOOLEAN
  /\ sweep = [c \in SweepCalls |-> Idle]
  /\ sweepFaults = 0

-----------------------------------------------------------------------------
(* What the sweeps read.                                                   *)

\* When events of these types occurred.
When(types) == {history[i].at : i \in {j \in DOMAIN history : history[j].type \in types}}

Missing(types) == When(types) = {}

\* min(occurred_at) of a milestone: the first report.
First(types) ==
  IF Missing(types) THEN Never ELSE CHOOSE t \in When(types) : \A u \in When(types) : t <= u

SlaState ==
  [booked |-> 0, departed |-> First(Departed),
   arrived |-> First(Arrived), released |-> First(Released)]

Attempts == Cardinality({i \in DOMAIN history : history[i].type = Requested})

\* max(occurred_at) of the chases, or the booking's own time.
LastAttempt ==
  IF Missing({Requested}) THEN 0
  ELSE CHOOSE t \in When({Requested}) : \A u \in When({Requested}) : t >= u

-----------------------------------------------------------------------------
(* carrier-confirmation-rules.ts.                                          *)

\* Defect for a mutation run: every wait is measured from the booking.
ChaseDueFromBooking == Attempts < Len(policy.ladder) /\ now >= policy.ladder[Attempts + 1]

\* nextAction: a chase whose wait, from the last one or the booking, is over.
ChaseDue == Attempts < Len(policy.ladder) /\ now - LastAttempt >= policy.ladder[Attempts + 1]

EscalationDue == Attempts >= Len(policy.ladder) /\ "BOOKING_ROLLED" \notin board.open

-----------------------------------------------------------------------------

Tick ==
  /\ now < MaxTime
  /\ now' = now + 1
  /\ UNCHANGED <<policy, history, shown, board, confirmed, sweep, sweepFaults>>

Room == Len(history) - shown < MaxBehind

\* An event; when an exception was raised is read by nobody, and left out.
Entry(type, arg, attempt, at, saw) ==
  [type |-> type, arg |-> arg, attempt |-> attempt, at |-> at, saw |-> saw]

\* A milestone is reported: by a carrier, the bureau, a driver; late, again, or
\* out of order.
Report ==
  /\ Room
  /\ Cardinality({i \in DOMAIN history : history[i].type \in Milestones}) < MaxReports
  /\ \E t \in Milestones, at \in {u \in 0 .. now : now - u <= MaxDelay} :
       history' = Append(history, Entry(t, None, 0, at, 0))
  /\ UNCHANGED <<policy, now, shown, board, confirmed, sweep, sweepFaults>>

\* The lifecycle projector handles the next event.
Project ==
  /\ shown < Len(history)
  /\ shown' = shown + 1
  /\ board' = ProjectEvent(board, history[shown + 1])
  /\ UNCHANGED <<policy, now, history, confirmed, sweep, sweepFaults>>

Breaches == DetectBreaches(SlaState, now, policy, board.open)

\* SlaSweepService.sweep finds breaches of a shipment in motion.
SlaRead(c) ==
  /\ sweep[c] = Idle
  /\ board.status \notin Settled
  /\ Breaches # {}
  /\ sweep' = [sweep EXCEPT ![c] =
                 [kind |-> "raise", codes |-> Breaches, attempt |-> 0, saw |-> shown]]
  /\ UNCHANGED <<policy, now, history, shown, board, confirmed, sweepFaults>>

\* One insert of all the breaches, with no source_ref.
SlaAppend(c) ==
  /\ sweep[c].kind = "raise" /\ c \in SlaCalls
  /\ Room
  /\ \E order \in [1 .. Cardinality(sweep[c].codes) -> sweep[c].codes] :
       /\ \A k \in sweep[c].codes : \E i \in DOMAIN order : order[i] = k
       /\ history' = history \o
            [i \in DOMAIN order |->
               Entry("shipment.exception_raised", order[i], 0, 0, sweep[c].saw)]
  /\ sweep' = [sweep EXCEPT ![c] = Idle]
  /\ UNCHANGED <<policy, now, shown, board, confirmed, sweepFaults>>

\* CarrierConfirmationService.sweep finds a booking with no carrier reference.
LadderRead(c) ==
  /\ sweep[c] = Idle
  /\ board.status = "BOOKED" /\ ~confirmed
  /\ \/ /\ ChaseDue
        /\ sweep' = [sweep EXCEPT ![c] =
                       [kind |-> "chase", codes |-> {}, attempt |-> Attempts + 1, saw |-> shown]]
     \/ /\ EscalationDue
        /\ sweep' = [sweep EXCEPT ![c] =
                       [kind |-> "raise", codes |-> {"BOOKING_ROLLED"}, attempt |-> 0, saw |-> shown]]
  /\ UNCHANGED <<policy, now, history, shown, board, confirmed, sweepFaults>>

Sent(attempt) ==
  \E i \in DOMAIN history : history[i].type = Requested /\ history[i].attempt = attempt

\* Defect for a mutation run: a chase carries no source_ref.
ChaseAppendAlways(c) ==
  /\ sweep[c].kind = "chase"
  /\ Room
  /\ history' = Append(history, Entry(Requested, None, sweep[c].attempt, now, sweep[c].saw))
  /\ sweep' = [sweep EXCEPT ![c] = Idle]
  /\ UNCHANGED <<policy, now, shown, board, confirmed, sweepFaults>>

\* appendEventIdempotent on (type, requestSourceRef): a chase already sent is dropped.
ChaseAppend(c) ==
  /\ sweep[c].kind = "chase"
  /\ Room
  /\ history' = IF Sent(sweep[c].attempt) THEN history
                ELSE Append(history, Entry(Requested, None, sweep[c].attempt, now, sweep[c].saw))
  /\ sweep' = [sweep EXCEPT ![c] = Idle]
  /\ UNCHANGED <<policy, now, shown, board, confirmed, sweepFaults>>

\* The escalation has no source_ref, so nothing drops a second one.
EscalationAppend(c) ==
  /\ sweep[c].kind = "raise" /\ c \in LadderCalls
  /\ Room
  /\ history' = Append(history,
                  Entry("shipment.exception_raised", "BOOKING_ROLLED", 0, 0, sweep[c].saw))
  /\ sweep' = [sweep EXCEPT ![c] = Idle]
  /\ UNCHANGED <<policy, now, shown, board, confirmed, sweepFaults>>

\* The insert fails or the instance stops; the schedule calls again later.
SweepFails(c) ==
  /\ sweep[c] # Idle
  /\ sweepFaults < MaxSweepFaults
  /\ sweepFaults' = sweepFaults + 1
  /\ sweep' = [sweep EXCEPT ![c] = Idle]
  /\ UNCHANGED <<policy, now, history, shown, board, confirmed>>

SlaStep(c) == SlaRead(c) \/ SlaAppend(c)
LadderStep(c) == LadderRead(c) \/ ChaseAppend(c) \/ EscalationAppend(c)

WatchNext ==
  \/ Tick \/ Report \/ Project
  \/ \E c \in SlaCalls : SlaStep(c)
  \/ \E c \in LadderCalls : LadderStep(c)
  \/ \E c \in SweepCalls : SweepFails(c)

\* The dispatcher's timer and the schedule keep going; nobody owes a milestone.
WatchFairness ==
  /\ WF_watchVars(Tick)
  /\ WF_watchVars(Project)
  /\ \A c \in SlaCalls : WF_watchVars(SlaStep(c))
  /\ \A c \in LadderCalls : WF_watchVars(LadderStep(c))

WatchSpec == WatchInit /\ [][WatchNext]_watchVars /\ WatchFairness

-----------------------------------------------------------------------------
(* Properties.                                                             *)

WatchTypeOK ==
  /\ policy \in Policies
  /\ now \in 0 .. MaxTime
  /\ history \in Seq([type : Milestones \cup {Requested, "shipment.exception_raised"},
                      arg : Codes \cup {None}, attempt : 0 .. Len(policy.ladder),
                      at : 0 .. MaxTime, saw : Nat])
  /\ shown \in 0 .. Len(history)
  /\ board \in [status : Statuses, open : SUBSET Codes]
  /\ confirmed \in BOOLEAN
  /\ sweep \in [SweepCalls -> [kind : {"idle", "raise", "chase"}, codes : SUBSET Codes,
                               attempt : 0 .. Len(policy.ladder), saw : 0 .. Len(history)]]
  /\ sweepFaults \in 0 .. MaxSweepFaults

Chases == {i \in DOMAIN history : history[i].type = Requested}
RaisesOf(c) == {i \in DOMAIN history : Raises(history[i]) = c}

\* The carrier is asked in order, once per attempt, each time after the wait the
\* ladder gives from the attempt before or from the booking; a person is told
\* only when every attempt was made; and neither is done about a shipment that
\* has left, unless the sweep read a board that did not show the departure.
ChaseLadder ==
  /\ \A i \in Chases :
       LET before == {j \in Chases : j < i} IN
         /\ history[i].attempt = Cardinality(before) + 1
         /\ \A j \in before \cup {0} :
              history[i].at - (IF j = 0 THEN 0 ELSE history[j].at) >= policy.ladder[history[i].attempt]
  /\ \A i \in RaisesOf("BOOKING_ROLLED") : Cardinality({j \in Chases : j < i}) = Len(policy.ladder)
  /\ \A i \in Chases \cup RaisesOf("BOOKING_ROLLED") : \A j \in DOMAIN history :
       j < i /\ history[j].type \in Departed => history[i].saw < j

\* A code is raised twice with nothing in between that clears it only by a sweep
\* that read the board before the first raise was on it: two runs of a sweep
\* repeat themselves only as far as the projector is behind.
RepeatOnlyWhileBehind ==
  \A c \in Codes : \A i, j \in RaisesOf(c) :
    (i < j /\ \A k \in i + 1 .. j - 1 : c \notin Clears(history[k])) => history[j].saw < i

\* A breach that lasts comes to be shown on the board and stays there, through
\* failed calls and a projector that lags: a missed run costs only notice.
BreachShown ==
  \A c \in {"CONGESTION_DELAY", "CUSTOMS_QUERY"} :
    <>[](c \in Overdue(SlaState, now, policy) /\ board.status \notin Settled) => <>[](c \in board.open)
=============================================================================
