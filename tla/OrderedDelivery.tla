--------------------------- MODULE OrderedDelivery ---------------------------
(***************************************************************************)
(* What the event dispatcher promises to its handlers, with no dispatcher  *)
(* in sight: each handler receives the visible events in recorded order,   *)
(* an event is never passed over, and the only events a handler may miss   *)
(* are those that became visible after a later one already had.            *)
(***************************************************************************)
EXTENDS Naturals

CONSTANTS
  Events,    \* a set of numbers: positions in recorded order
  Consumers

VARIABLES
  visible,   \* events that readers can see
  excused,   \* excused[h]: events that surfaced out of order for h
  received   \* received[h]: events h has processed at least once

deliveryVars == <<visible, excused, received>>

Init ==
  /\ visible = {}
  /\ excused = [h \in Consumers |-> {}]
  /\ received = [h \in Consumers |-> {}]

\* A set of events appears; h may be excused only from those that appear
\* behind an event that was already visible.
Appear(S) ==
  /\ visible' = visible \cup S
  /\ excused' \in [Consumers -> SUBSET Events]
  /\ \A h \in Consumers :
       /\ excused[h] \subseteq excused'[h]
       /\ \A p \in excused'[h] \ excused[h] :
            p \in S /\ \E q \in visible : q > p
  /\ UNCHANGED received

\* h processes p once everything before it that it must see has been.
Receive(h, p) ==
  /\ p \in visible
  /\ \A q \in visible \ excused[h] : q < p => q \in received[h]
  /\ received' = [received EXCEPT ![h] = @ \cup {p}]
  /\ UNCHANGED <<visible, excused>>

Next ==
  \/ \E S \in SUBSET (Events \ visible) : Appear(S)
  \/ \E h \in Consumers, p \in Events : Receive(h, p)

Spec == Init /\ [][Next]_deliveryVars
=============================================================================
