----------------------------- MODULE MCShipments -----------------------------
(***************************************************************************)
(* Booking, and the workflow it starts, each in behaviours of its own:     *)
(* three clients who book the same quote with an error on the way, or the  *)
(* workflow of one shipment with a signal or an attempt lost.              *)
(***************************************************************************)
EXTENDS Bookings, ShipmentWorkflow

VARIABLE part

mcVars == <<part, vars, wfVars>>

MCSla == [departure |-> 1, transit |-> 1, customs |-> 1]

MCInit == part \in {"booking", "workflow"} /\ Init /\ WfInit

\* One kind of trouble in a behaviour: it is cancelled, a signal is lost, or an
\* attempt fails.
MCOneTrouble ==
  /\ "cancelled" \in seen => lost = {} /\ attempts = 0
  /\ lost # {} /\ wf # "ended" => attempts = 0 /\ \A p \in 1 .. 3 : flying[p] = 0

MCNext ==
  \/ part = "booking" /\ Next /\ UNCHANGED <<part, wfVars>>
  \/ part = "workflow" /\ WfNext /\ MCOneTrouble' /\ UNCHANGED <<part, vars>>

\* FairSpec's and WfSpec's fairness, of the part that runs.
MCFairness ==
  /\ \A c \in Clients : WF_vars(part = "booking" /\ RequestStep(c))
  /\ WF_wfVars(part = "workflow" /\ WfTick)
  /\ WF_wfVars(part = "workflow" /\ (Signal \/ SignalLost))
  /\ WF_wfVars(part = "workflow" /\ Worker)

MCSpec == MCInit /\ [][MCNext]_mcVars /\ MCFairness
=============================================================================
