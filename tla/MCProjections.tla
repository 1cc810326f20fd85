---------------------------- MODULE MCProjections ----------------------------
(***************************************************************************)
(* API instances that project one shipment, each kind of trouble in        *)
(* behaviours of its own: one instance with faults, while two services     *)
(* write; two instances that project two events across each other; two     *)
(* that project and accrue one event, with a fault.                        *)
(***************************************************************************)
EXTENDS Projections, TLC

VARIABLES
  part,  \* which of them it is
  who    \* the instances and services that take part

mcVars == <<part, who, crossVars>>

MCPoison == {}

MCArrivals == {Plain("vessel.departed"), Plain("entry.stopped"), Plain("entry.released"),
               Plain("pod.confirmed"), Raised("CONGESTION_DELAY"), Plain("container.gated_out")}

MCDepartures == {Plain("vessel.departed")}

\* What each kind takes: how many instances and services, which events and how many,
\* and how many faults.
MCBounds ==
  [alone |-> [instances |-> 1, services |-> 2, most |-> 2, faults |-> 2,
              arrivals |-> {Plain("vessel.departed"), Plain("entry.stopped"),
                            Plain("entry.released"), Plain("pod.confirmed")}],
   \* One code raised, an event that clears it and moves the status, and one that moves
   \* the status only.
   crossing |-> [instances |-> 2, services |-> 1, most |-> 2, faults |-> 0,
                 arrivals |-> {Raised("CONGESTION_DELAY"), Plain("pod.confirmed"),
                               Plain("container.gated_out")}],
   accruing |-> [instances |-> 2, services |-> 1, most |-> 1, faults |-> 1,
                 arrivals |-> {Plain("entry.stopped"), Plain("entry.released")}]]

\* Who takes no part never starts, and what arrives is of the kinds of this part.
MCWithin ==
  LET bound == MCBounds[part]
  IN /\ faults' <= bound.faults
     /\ \A w \in Writers \ who : open'[w] = {}
     /\ \A d \in Dispatchers \ who : pc'[d] = "idle"
     /\ clock' # clock /\ event'[clock'] \in Arrivals =>
          /\ event'[clock'] \in bound.arrivals
          /\ Cardinality({p \in 1 .. clock' : event'[p] \in Arrivals}) <= bound.most

MCInit ==
  /\ CrossInit
  /\ part \in DOMAIN MCBounds
  /\ who \in SUBSET Writers
  /\ Cardinality(who \cap Dispatchers) = MCBounds[part].instances
  /\ Cardinality(who \ Dispatchers) = MCBounds[part].services

\* CrossNext, within these bounds.
MCNext == SpineNext /\ MCWithin /\ Remember /\ UNCHANGED <<part, who>>

MCSpec == MCInit /\ [][MCNext]_mcVars

MCAloneOnly == MCInit /\ part = "alone" /\ [][MCNext]_mcVars

\* Which session writes an event makes no difference, nor which instance runs.
MCSymmetry == Permutations(Outside) \cup Permutations(Dispatchers)
=============================================================================
