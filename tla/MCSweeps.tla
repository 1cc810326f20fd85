------------------------------ MODULE MCSweeps ------------------------------
(*****************************************************************************)
(* The sweeps a scheduler calls, each in behaviours of its own: the overdue  *)
(* sweep among payments, the SLA sweep over a confirmed booking, the carrier *)
(* ladder over an unconfirmed one, under SLAs that the time does not reach,  *)
(* and the re-screening of the parties on file.                              *)
(*****************************************************************************)
EXTENDS Payments, Watch, Screening, TLC

CONSTANTS first, again, second, half1, half2   \* deliveries and references

VARIABLE part

mcVars == <<part, vars, watchVars, screenVars>>

\* An invoice of two cents paid in two halves; the first is delivered twice.
MCRefOf == first :> half1 @@ again :> half1 @@ second :> half2
MCAmountOf == [ref \in Refs |-> 1]

MCTight == [departure |-> 1, transit |-> 1, customs |-> 1, ladder |-> <<1, 1>>]
MCLoose == [departure |-> 9, transit |-> 9, customs |-> 9, ladder |-> <<1, 1>>]
MCRescreenAfter == [s \in Verdicts \cup {"UNSCREENED"} |->
  CASE s = "UNSCREENED" -> 0 [] s = "CLEAR" -> 2 [] OTHER -> 1]
MCPolicies == {MCTight, MCLoose}

MCInit ==
  /\ part \in {"payments", "sla", "ladder", "screening"}
  /\ Init /\ WatchInit /\ ScreenInit
  /\ part # "screening" => cap = 1 /\ listed = [p \in Parties |-> "CLEAR"]
  /\ \A p, q \in Parties : listed[p] = listed[q]
  /\ confirmed = (part # "ladder")
  /\ policy = IF part = "sla" THEN MCTight ELSE MCLoose

\* The ladder ends at the departure: one report is enough there.
MCFew == Cardinality({i \in DOMAIN history : history[i].type \in Milestones}) <= 1

MCNext ==
  \/ part = "payments" /\ Next /\ UNCHANGED <<part, watchVars, screenVars>>
  \/ part = "sla" /\ WatchNext /\ UNCHANGED <<part, vars, screenVars>>
  \/ part = "ladder" /\ WatchNext /\ MCFew' /\ UNCHANGED <<part, vars, screenVars>>
  \/ part = "screening" /\ ScreenNext /\ UNCHANGED <<part, vars, watchVars>>

\* FairSpec's, WatchSpec's and ScreenSpec's fairness, of the part that runs.
MCFairness ==
  /\ \A d \in Deliveries : WF_vars(part = "payments" /\ UnderWay(d) /\ Step(d))
  /\ WF_vars(part = "payments" /\ MarkOverdue)
  /\ WF_watchVars(part \in {"sla", "ladder"} /\ Tick)
  /\ WF_watchVars(part \in {"sla", "ladder"} /\ Project)
  /\ \A c \in SlaCalls : WF_watchVars(part \in {"sla", "ladder"} /\ SlaStep(c))
  /\ \A c \in LadderCalls : WF_watchVars(part \in {"sla", "ladder"} /\ LadderStep(c))
  /\ \A r \in Runs : WF_screenVars(part = "screening" /\ StartSweep(r))
  /\ \A r \in Runs \cup Askers : WF_screenVars(part = "screening" /\ RequestStep(r))
  /\ WF_screenVars(part = "screening" /\ Day)

MCSpec == MCInit /\ [][MCNext]_mcVars /\ MCFairness

\* Payments by themselves, where nothing has to happen.
MCPaymentsOnly == MCInit /\ part = "payments" /\ [][MCNext]_mcVars

Base == INSTANCE Schema WITH Null <- 0

\* The words of these models are the words the columns take.
ASSUME SweepWords ==
  /\ Statuses = Base!ShipmentStatus /\ Codes = Base!ExceptionCode
  /\ Verdicts \cup {"UNSCREENED"} = Base!ScreeningStatus /\ Unsettled \subseteq Base!InvoiceStatus
=============================================================================
