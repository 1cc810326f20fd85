--------------------------- MODULE ShipmentWorkflow ---------------------------
(****************************************************************************)
(* The Temporal workflow of one shipment: four phases, three of them with a *)
(* timer, an activity that raises an exception when a timer ends, and the   *)
(* signals the dispatcher's fourth handler forwards from the log.           *)
(*                                                                          *)
(* A signal that Temporal does not take is logged and dropped.  An attempt  *)
(* of the activity fails, or times out with its insert still under way; it  *)
(* is retried up to MaxAttempts times, and then the workflow fails.  Timers *)
(* and signals of a worker that was down are taken in the order of its      *)
(* next task, signals first: a timer ends only a wait that is still unmet.  *)
(*                                                                          *)
(* Nothing in the repository sends the cancel signal: it is an operator's.  *)
(* MaxWfTime, MaxWfReports, MaxLost are bounds.                             *)
(****************************************************************************)
EXTENDS ShipmentLifecycle, FiniteSets, Sequences

CONSTANTS
  Sla,           \* [departure, transit, customs]: the input, or its defaults
  MaxAttempts,   \* maximumAttempts of the activity: 5
  MaxWfTime,     \* bound: how long the clock runs
  MaxWfReports,  \* bound: milestones recorded
  MaxLost        \* bound: signals lost while the workflow runs

ASSUME WorkflowAssumption ==
  /\ {Sla.departure, Sla.transit, Sla.customs} \subseteq Nat
  /\ MaxAttempts \in Nat \ {0}
  /\ {MaxWfTime, MaxWfReports, MaxLost} \subseteq Nat

VARIABLES
  wfNow,
  wfLog,       \* the shipment's milestones: records [type, at]
  signalled,   \* how many of them the signaler has been through
  lost,        \* positions whose signal Temporal did not take
  seen,        \* the flags the signal handlers set
  phase,
  wf,          \* what the workflow awaits: "absent", "timer", "activity", "signal", "ended", "failed"
  since,       \* when the timer it awaits was started
  attempts,    \* attempts of the activity that did not succeed
  late,        \* phases whose timer ended
  flying,      \* flying[p]: inserts of attempts that timed out, still under way
  alerts       \* alerts[p]: shipment.exception_raised events of phase p

wfVars == <<wfNow, wfLog, signalled, lost, seen, phase, wf, since, attempts, late, flying, alerts>>

\* The milestone types the signaler forwards, and the flag each one sets.
FlagOf ==
  [t \in {"vessel.departed", "vessel.arrived", "container.discharged",
          "entry.released", "pod.confirmed"} |->
     CASE t = "vessel.departed" -> "departed"
       [] t \in {"vessel.arrived", "container.discharged"} -> "arrived"
       [] t = "entry.released" -> "released"
       [] t = "pod.confirmed" -> "delivered"]

MilestoneTypes == {"vessel.departed", "vessel.arrived", "entry.released", "pod.confirmed"}

WfInit ==
  /\ wfNow = 0
  /\ wfLog = <<>>
  /\ signalled = 0
  /\ lost = {}
  /\ seen = {}
  /\ phase = 1
  /\ wf = "absent"
  /\ since = 0
  /\ attempts = 0
  /\ late = {}
  /\ flying = [p \in 1 .. 3 |-> 0]
  /\ alerts = [p \in 1 .. 3 |-> 0]

-----------------------------------------------------------------------------
(* The log and the signaler.                                               *)

WfTick ==
  /\ wfNow < MaxWfTime
  /\ wfNow' = wfNow + 1
  /\ UNCHANGED <<wfLog, signalled, lost, seen, phase, wf, since, attempts, late, flying, alerts>>

\* A milestone is recorded, in any order; another report of it would set a flag
\* that is set, and is left out.
Record ==
  /\ Len(wfLog) < MaxWfReports
  /\ \E t \in MilestoneTypes :
       /\ \A i \in DOMAIN wfLog : wfLog[i].type # t
       /\ wfLog' = Append(wfLog, [type |-> t, at |-> wfNow])
  /\ UNCHANGED <<wfNow, signalled, lost, seen, phase, wf, since, attempts, late, flying, alerts>>

Running == wf \in {"timer", "activity", "signal"}

\* WorkflowSignaler.handle: the next event is forwarded.
Signal ==
  /\ signalled < Len(wfLog)
  /\ Running
  /\ signalled' = signalled + 1
  /\ seen' = seen \cup {FlagOf[wfLog[signalled + 1].type]}
  /\ UNCHANGED <<wfNow, wfLog, lost, phase, wf, since, attempts, late, flying, alerts>>

\* signalMilestone catches the error of a workflow that is not there yet or has
\* ended, or of a Temporal that does not answer, and the handler returns.
SignalLost ==
  /\ signalled < Len(wfLog)
  /\ Running => Cardinality(lost) < MaxLost
  /\ signalled' = signalled + 1
  /\ lost' = lost \cup {signalled + 1}
  /\ UNCHANGED <<wfNow, wfLog, seen, phase, wf, since, attempts, late, flying, alerts>>

-----------------------------------------------------------------------------
(* The workflow.                                                           *)

\* bookQuote starts it after its commit.
StartWorkflow ==
  /\ wf = "absent"
  /\ wf' = "timer"
  /\ since' = wfNow
  /\ UNCHANGED <<wfNow, wfLog, signalled, lost, seen, phase, attempts, late, flying, alerts>>

Cancel ==
  /\ Running
  /\ "cancelled" \notin seen
  /\ seen' = seen \cup {"cancelled"}
  /\ UNCHANGED <<wfNow, wfLog, signalled, lost, phase, wf, since, attempts, late, flying, alerts>>

Awaited ==
  CASE phase = 1 -> {"departed", "cancelled"}
    [] phase = 2 -> {"arrived", "cancelled"}
    [] phase = 3 -> {"released", "delivered", "cancelled"}
    [] phase = 4 -> {"delivered", "cancelled"}

Met == seen \cap Awaited # {}

Budget ==
  CASE phase = 1 -> Sla.departure
    [] phase = 2 -> Sla.transit
    [] phase = 3 -> Sla.customs

\* The next phase begins, the last one without a timer.
Enter(p) ==
  /\ phase' = p
  /\ wf' = IF p = 4 THEN "signal" ELSE "timer"
  /\ since' = wfNow

\* Defect for a mutation run: a phase starts with the flags it waits for unset.
ProceedAfresh ==
  /\ wf \in {"timer", "signal"} /\ Met
  /\ \/ /\ phase = 4 \/ (phase < 3 /\ "cancelled" \in seen)
        /\ wf' = "ended"
        /\ UNCHANGED <<phase, since, seen>>
     \/ /\ phase < 4 /\ (phase = 3 \/ "cancelled" \notin seen)
        /\ Enter(phase + 1)
        /\ seen' = seen \cap {"cancelled"}
  /\ UNCHANGED <<wfNow, wfLog, signalled, lost, attempts, late, flying, alerts>>

\* What it awaits has come: a cancelled shipment ends it before the third phase
\* and in the last, a delivered one in the last.
Proceed ==
  /\ wf \in {"timer", "signal"} /\ Met
  /\ \/ /\ phase = 4 \/ (phase < 3 /\ "cancelled" \in seen)
        /\ wf' = "ended"
        /\ UNCHANGED <<phase, since>>
     \/ /\ phase < 4 /\ (phase = 3 \/ "cancelled" \notin seen)
        /\ Enter(phase + 1)
  /\ UNCHANGED <<wfNow, wfLog, signalled, lost, seen, attempts, late, flying, alerts>>

\* Defect for a mutation run: the timer runs out though what it awaits has come.
TimeoutAnyway ==
  /\ wf = "timer"
  /\ wfNow - since >= Budget
  /\ wf' = "activity"
  /\ late' = late \cup {phase}
  /\ attempts' = 0
  /\ UNCHANGED <<wfNow, wfLog, signalled, lost, seen, phase, since, flying, alerts>>

Timeout ==
  /\ wf = "timer" /\ ~Met
  /\ wfNow - since >= Budget
  /\ wf' = "activity"
  /\ late' = late \cup {phase}
  /\ attempts' = 0
  /\ UNCHANGED <<wfNow, wfLog, signalled, lost, seen, phase, since, flying, alerts>>

\* The activity has answered: phases 1 and 2 wait on without a timer, phase 3 does not.
AfterAlert ==
  IF phase = 3 THEN Enter(4) ELSE wf' = "signal" /\ UNCHANGED <<phase, since>>

AttemptSucceeds ==
  /\ wf = "activity"
  /\ alerts' = [alerts EXCEPT ![phase] = @ + 1]
  /\ AfterAlert
  /\ UNCHANGED <<wfNow, wfLog, signalled, lost, seen, attempts, late, flying>>

\* One attempt fewer; after the last, the error ends the workflow.
Retry ==
  /\ wf = "activity"
  /\ attempts' = attempts + 1
  /\ wf' = IF attempts + 1 = MaxAttempts THEN "failed" ELSE wf

\* Defect for a mutation run: an attempt that timed out counts as an answer.
AttemptFailsDone ==
  /\ wf = "activity"
  /\ flying' = [flying EXCEPT ![phase] = @ + 1]
  /\ AfterAlert
  /\ UNCHANGED <<wfNow, wfLog, signalled, lost, seen, attempts, late, alerts>>

\* An error, or no answer in a minute, after which the insert may still commit.
AttemptFails ==
  /\ Retry
  /\ flying' = [flying EXCEPT ![phase] = @ + 1]
  /\ UNCHANGED <<wfNow, wfLog, signalled, lost, seen, phase, since, late, alerts>>

InsertLands(p) ==
  /\ flying[p] > 0
  /\ flying' = [flying EXCEPT ![p] = @ - 1]
  /\ alerts' = [alerts EXCEPT ![p] = @ + 1]
  /\ UNCHANGED <<wfNow, wfLog, signalled, lost, seen, phase, wf, since, attempts, late>>

InsertDies(p) ==
  /\ flying[p] > 0
  /\ flying' = [flying EXCEPT ![p] = @ - 1]
  /\ UNCHANGED <<wfNow, wfLog, signalled, lost, seen, phase, wf, since, attempts, late, alerts>>

Worker == Proceed \/ Timeout \/ AttemptSucceeds \/ AttemptFails

WfNext ==
  \/ WfTick \/ Record \/ Signal \/ SignalLost
  \/ StartWorkflow \/ Cancel \/ Worker
  \/ \E p \in 1 .. 3 : InsertLands(p) \/ InsertDies(p)

\* Timers run, the signaler's tick and the worker go on; nobody owes a milestone.
WfFairness ==
  /\ WF_wfVars(WfTick)
  /\ WF_wfVars(Signal \/ SignalLost)
  /\ WF_wfVars(Worker)

WfSpec == WfInit /\ [][WfNext]_wfVars /\ WfFairness

-----------------------------------------------------------------------------
(* Properties.                                                             *)

WfTypeOK ==
  /\ wfNow \in 0 .. MaxWfTime
  /\ wfLog \in Seq([type : DOMAIN FlagOf, at : 0 .. MaxWfTime])
  /\ signalled \in 0 .. Len(wfLog)
  /\ lost \subseteq 1 .. signalled
  /\ seen \subseteq {"departed", "arrived", "released", "delivered", "cancelled"}
  /\ phase \in 1 .. 4
  /\ wf \in {"absent", "timer", "activity", "signal", "ended", "failed"}
  /\ since \in 0 .. wfNow
  /\ attempts \in 0 .. MaxAttempts
  /\ late \subseteq 1 .. 3
  /\ flying \in [1 .. 3 -> 0 .. MaxAttempts]
  /\ alerts \in [1 .. 3 -> 0 .. MaxAttempts]

Occurred(flag) == {wfLog[i].at : i \in {j \in DOMAIN wfLog : FlagOf[wfLog[j].type] = flag}}

FirstOf(flag) ==
  IF Occurred(flag) = {} THEN Never
  ELSE CHOOSE t \in Occurred(flag) : \A u \in Occurred(flag) : t <= u

\* The position the SLA sweep would assemble from the same log.
Position ==
  [booked |-> 0, departed |-> FirstOf("departed"),
   arrived |-> FirstOf("arrived"), released |-> FirstOf("released")]

\* The sweep compares with "greater", the timer ends at "equal".
RuleOf(p) ==
  CASE p = 1 -> NotDeparted(Position, wfNow + 1, Sla)
    [] p = 2 -> NotArrived(Position, wfNow + 1, Sla)
    [] p = 3 -> NotReleased(Position, wfNow + 1, Sla)

\* The workflow and the sweep that is to replace it agree: when a timer ends, the
\* rule of that phase holds of the log, unless a milestone has not reached the
\* workflow (it is lost, or the signaler is behind) or the shipment was given up.
WorkflowAgrees ==
  [][\A p \in 1 .. 3 :
       p \in late' \ late =>
         RuleOf(p) \/ lost # {} \/ signalled < Len(wfLog)]_wfVars

\* A phase whose time ran out is on the log before the workflow goes on from it,
\* and at most once per attempt; one whose time did not is never there.
AlertedAtLeastOnce ==
  /\ \A p \in 1 .. 3 : alerts[p] + flying[p] <= MaxAttempts
  /\ \A p \in 1 .. 3 : alerts[p] + flying[p] > 0 => p \in late
  /\ \A p \in late :
       (phase # p \/ wf = "signal" \/ wf = "ended") => alerts[p] > 0

Reported == {FlagOf[wfLog[i].type] : i \in DOMAIN wfLog}

\* A shipment that departs, arrives and is delivered brings its workflow to an
\* end, in whatever order that is recorded, if no signal is lost.
WorkflowEnds ==
  <>[](wf # "absent" /\ lost = {} /\ {"departed", "arrived", "delivered"} \subseteq Reported)
    => <>(wf \in {"ended", "failed"})
=============================================================================
