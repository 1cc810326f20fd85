--------------------------- MODULE ShipmentsProofs ---------------------------
(***************************************************************************)
(* Proofs about booking a quote, for any set of clients and any number of  *)
(* errors, and about the workflow of the shipment, for any budgets,        *)
(* attempts, milestones and lost signals.                                  *)
(*                                                                         *)
(* NoLaterBooking is not inductive: it does not say why a request that     *)
(* came in after a booking never reaches the insert.  BookingInv adds that *)
(* whoever is past the claim came in before any booking, and that an       *)
(* attempt not yet made has no booking.                                    *)
(*                                                                         *)
(* AlertInv adds to AlertedAtLeastOnce that no phase is told of before its *)
(* timer ended and that every insert is of an attempt of its own; AgreeInv *)
(* adds to it what the flags say of the log, and when the phase began.     *)
(*                                                                         *)
(* Of who reads the shipments page by page, for any book and any bookings  *)
(* meanwhile: what was served never comes after the cursor, and what was   *)
(* not does, or shares a millisecond with what was (Reading).              *)
(***************************************************************************)
EXTENDS Bookings, ShipmentWorkflow, Portal, Sums, SequenceTheorems, TLAPS

USE BookingAssumption, NobodyAssumption

PastClaim(c) == pc[c] \in {"wait", "insert"}

BookingInv ==
  /\ TypeOK
  /\ AcceptedIffBooked
  /\ StartedAfterCommit
  /\ \A c \in Clients : pc[c] = "workflow" => <<c, attempt[c]>> \in bookings
  /\ \A c \in Clients : before[c] \subseteq bookings
  /\ \A c \in Clients :
       PastClaim(c) \/ <<c, attempt[c]>> \in bookings => before[c] = {}
  /\ \A c \in Clients, n \in Nat : <<c, n>> \in bookings => n <= attempt[c]

LEMMA BookingInit == Init => BookingInv
<1> SUFFICES ASSUME Init PROVE BookingInv
  OBVIOUS
<1>1. TypeOK
  <2>0. expired \in BOOLEAN /\ locked \in Clients \cup {Nobody}
    BY Zenon DEF Init
  <2>1. /\ quoteStatus \in Bookable
        /\ partyStatus \in {"CLEAR", "REVIEW", "HIT"}
        /\ faults \in 0 .. MaxFaults
    BY DEF Init, Bookable
  <2>2. /\ pc \in [Clients -> {"idle", "screen", "update", "wait", "insert",
                               "workflow", "done"}]
        /\ answer \in [Clients -> {"none", "booked", "conflict", "error"}]
        /\ attempt \in [Clients -> Nat]
    BY DEF Init
  <2>3. /\ bookings \subseteq Clients \X Nat /\ workflows \subseteq Clients \X Nat
        /\ before \in [Clients -> SUBSET (Clients \X Nat)]
    BY DEF Init
  <2> QED
    BY <2>0, <2>1, <2>2, <2>3 DEF TypeOK
<1>2. AcceptedIffBooked /\ StartedAfterCommit
  BY DEF Init, AcceptedIffBooked, StartedAfterCommit
<1>3. \A c \in Clients : pc[c] = "idle"
  BY DEF Init
<1>4. bookings = {}
  BY DEF Init
<1>5. \A c \in Clients : before[c] = {}
  BY DEF Init
<1>6. \A c \in Clients : pc[c] # "workflow"
  BY <1>3
<1>7. \A c \in Clients : before[c] \subseteq bookings
  BY <1>5
<1>8. \A c \in Clients, n \in Nat : <<c, n>> \in bookings => n <= attempt[c]
  BY <1>4
<1> QED
  BY <1>1, <1>2, <1>5, <1>6, <1>7, <1>8 DEF BookingInv

LEMMA BookingType == TypeOK /\ [Next]_vars => TypeOK'
<1> SUFFICES ASSUME TypeOK, [Next]_vars PROVE TypeOK'
  OBVIOUS
<1> USE DEF TypeOK, At, Answer, Bookable
<1>1. ASSUME NEW c \in Clients, Request(c) PROVE TypeOK'
  BY <1>1 DEF Request
<1>2. ASSUME NEW c \in Clients, Screen(c) PROVE TypeOK'
  BY <1>2 DEF Screen
<1>3. ASSUME NEW c \in Clients, Claim(c) PROVE TypeOK'
  BY <1>3 DEF Claim
<1>4. ASSUME NEW c \in Clients, ClaimRefused(c) PROVE TypeOK'
  BY <1>4 DEF ClaimRefused
<1>5. ASSUME NEW c \in Clients, Claimed(c) PROVE TypeOK'
  BY <1>5 DEF Claimed
<1>6. ASSUME NEW c \in Clients, Commit(c) PROVE TypeOK'
  BY <1>6 DEF Commit
<1>7. ASSUME NEW c \in Clients, Finish(c) PROVE TypeOK'
  BY <1>7 DEF Finish
<1>8. ASSUME NEW c \in Clients, Fail(c) PROVE TypeOK'
  BY <1>8 DEF Fail
<1>9. CASE Expire
  BY <1>9 DEF Expire
<1>10. CASE UNCHANGED vars
  BY <1>10 DEF vars
<1> QED
  BY <1>1, <1>2, <1>3, <1>4, <1>5, <1>6, <1>7, <1>8, <1>9, <1>10
     DEF Next, RequestStep

LEMMA BookingStep == BookingInv /\ [Next]_vars => BookingInv'
<1> SUFFICES ASSUME BookingInv, [Next]_vars PROVE BookingInv'
  OBVIOUS
<1>0. TypeOK /\ TypeOK'
  BY BookingType DEF BookingInv
<1> USE DEF BookingInv, AcceptedIffBooked, StartedAfterCommit, PastClaim,
             At, Answer, NoBookingVisible
<1>1. ASSUME NEW c \in Clients, Request(c) PROVE BookingInv'
  <2>1. <<c, attempt'[c]>> \notin bookings'
    BY <1>0, <1>1 DEF Request, TypeOK
  <2> QED
    BY <1>0, <1>1, <2>1 DEF Request, TypeOK
<1>2. ASSUME NEW c \in Clients, Screen(c) PROVE BookingInv'
  BY <1>0, <1>2 DEF Screen, TypeOK
<1>3. ASSUME NEW c \in Clients, Claim(c) PROVE BookingInv'
  BY <1>0, <1>3 DEF Claim, TypeOK
<1>4. ASSUME NEW c \in Clients, ClaimRefused(c) PROVE BookingInv'
  BY <1>0, <1>4 DEF ClaimRefused, TypeOK
<1>5. ASSUME NEW c \in Clients, Claimed(c) PROVE BookingInv'
  BY <1>0, <1>5 DEF Claimed, TypeOK
<1>6. ASSUME NEW c \in Clients, Commit(c) PROVE BookingInv'
  <2>1. bookings' = bookings \cup {<<c, attempt[c]>>} /\ quoteStatus' = "ACCEPTED"
    BY <1>6 DEF Commit
  <2>2. AcceptedIffBooked' /\ StartedAfterCommit'
    BY <1>6, <2>1 DEF Commit
  <2>3. UNCHANGED <<attempt, before>> /\ pc[c] = "insert"
    BY <1>6 DEF Commit
  <2>4. \A k \in Clients : k # c => pc'[k] = pc[k]
    BY <1>0, <1>6 DEF Commit, TypeOK
  <2>5. \A k \in Clients \ {c}, n \in Nat : <<k, n>> \in bookings' <=> <<k, n>> \in bookings
    BY <2>1
  <2>5a. \A k \in Clients : attempt[k] \in Nat /\ attempt'[k] = attempt[k]
    BY <1>0, <2>3 DEF TypeOK
  <2>6. before[c] = {} /\ <<c, attempt[c]>> \in bookings'
    BY <2>1, <2>3
  <2>7. \A k \in Clients, n \in Nat : <<k, n>> \in bookings' => n <= attempt'[k]
    BY <1>0, <2>1, <2>3 DEF TypeOK
  <2>8. \A k \in Clients : pc'[k] = "workflow" => <<k, attempt'[k]>> \in bookings'
    BY <2>3, <2>4, <2>5, <2>6, <2>5a
  <2>9. \A k \in Clients :
          PastClaim(k)' \/ <<k, attempt'[k]>> \in bookings' => before'[k] = {}
    BY <2>3, <2>4, <2>5, <2>6, <2>5a
  <2>10. \A k \in Clients : before'[k] \subseteq bookings'
    BY <2>1, <2>3
  <2> QED
    BY <1>0, <2>2, <2>7, <2>8, <2>9, <2>10
<1>7. ASSUME NEW c \in Clients, Finish(c) PROVE BookingInv'
  BY <1>0, <1>7 DEF Finish, TypeOK
<1>8. ASSUME NEW c \in Clients, Fail(c) PROVE BookingInv'
  <2>1. UNCHANGED <<quoteStatus, bookings, attempt, before>>
    BY <1>8 DEF Fail
  <2>2. \A k \in Clients : pc'[k] = pc[k] \/ pc'[k] = "done"
    BY <1>0, <1>8 DEF Fail, TypeOK
  <2>3. StartedAfterCommit'
    BY <1>8, <2>1 DEF Fail
  <2> QED
    BY <1>0, <2>1, <2>2, <2>3
<1>9. CASE Expire
  BY <1>0, <1>9 DEF Expire, TypeOK
<1>10. CASE UNCHANGED vars
  BY <1>0, <1>10 DEF vars, TypeOK
<1> QED
  BY <1>1, <1>2, <1>3, <1>4, <1>5, <1>6, <1>7, <1>8, <1>9, <1>10
     DEF Next, RequestStep

LEMMA BookingInvariant == Spec => []BookingInv
BY BookingInit, BookingStep, PTL DEF Spec

\* Type correctness, whatever the constants.
THEOREM BookingTypeCorrect == Spec => []TypeOK
<1>1. BookingInv => TypeOK
  BY DEF BookingInv
<1> QED
  BY <1>1, BookingInvariant, PTL

\* No workflow is ever started for a booking that does not commit.
THEOREM WorkflowAfterCommit == Spec => []StartedAfterCommit
<1>1. BookingInv => StartedAfterCommit
  BY DEF BookingInv
<1> QED
  BY <1>1, BookingInvariant, PTL

\* Whatever the interleaving of clients, retries and errors, a request that comes
\* in after a booking has committed does not book the quote again.
THEOREM BookedOnceSeen == Spec => []NoLaterBooking
<1>1. BookingInv => NoLaterBooking
  BY DEF BookingInv, NoLaterBooking
<1> QED
  BY <1>1, BookingInvariant, PTL

\* The quote's status and its booking commit together, whatever fails.
THEOREM AcceptedWithBooking == Spec => []AcceptedIffBooked
<1>1. BookingInv => AcceptedIffBooked
  BY DEF BookingInv
<1> QED
  BY <1>1, BookingInvariant, PTL

\* Quote, booking and workflow agree in every state, for any clients and faults.
THEOREM BookingIsAtomic == Spec => []BookingAtomic
<1>1. BookingInv => BookingAtomic
  BY DEF BookingInv, BookingAtomic
<1> QED
  BY <1>1, BookingInvariant, PTL

-----------------------------------------------------------------------------
(* The workflow of a shipment: what it has told.                           *)

Flags == {"departed", "arrived", "released", "delivered"}

LEMMA EntryOfLog ==
  ASSUME NEW S, NEW h \in Seq(S), NEW i \in 1 .. Len(h)
  PROVE  h[i] \in S
OBVIOUS

LEMMA FlagsOfTypes ==
  /\ MilestoneTypes \subseteq DOMAIN FlagOf
  /\ \A t \in DOMAIN FlagOf : FlagOf[t] \in Flags
BY DEF FlagOf, MilestoneTypes, Flags

\* A phase that has not run out of time has told nobody, and a workflow tells of the
\* phase it is in; every insert under way, or on the log, is of an attempt of its own.
AlertInv ==
  /\ WfTypeOK
  /\ AlertedAtLeastOnce
  /\ \A p \in late : p <= phase
  /\ wf \in {"absent", "timer"} => phase \notin late
  /\ wf = "absent" => phase = 1
  /\ wf \in {"timer", "activity"} => phase \in 1 .. 3
  /\ wf = "activity" =>
       /\ phase \in late /\ attempts < MaxAttempts
       /\ alerts[phase] + flying[phase] <= attempts

LEMMA AlertInit ==
  ASSUME WfInit
  PROVE  AlertInv
<1>1. DOMAIN wfLog = {} /\ Len(wfLog) = 0 /\ wfLog = <<>>
  BY DEF WfInit
<1>2. WfTypeOK
  BY <1>1, WorkflowAssumption DEF WfInit, WfTypeOK
<1> QED BY <1>2, WorkflowAssumption DEF WfInit, AlertInv, AlertedAtLeastOnce

\* A step that leaves what was told alone.
AlertVars == <<seen, phase, wf, since, attempts, late, flying, alerts>>

LEMMA AlertStepInv ==
  ASSUME AlertInv, [WfNext]_wfVars
  PROVE  AlertInv'
<1>t. /\ wfNow \in 0 .. MaxWfTime /\ wfNow \in Nat /\ Len(wfLog) \in Nat
      /\ signalled \in 0 .. Len(wfLog) /\ phase \in 1 .. 4 /\ since \in 0 .. wfNow
      /\ attempts \in 0 .. MaxAttempts /\ MaxAttempts \in Nat /\ MaxAttempts > 0
      /\ late \subseteq 1 .. 3
      /\ flying \in [1 .. 3 -> 0 .. MaxAttempts] /\ alerts \in [1 .. 3 -> 0 .. MaxAttempts]
  <2>1. MaxAttempts \in Nat /\ MaxAttempts > 0 /\ MaxWfTime \in Nat
    BY WorkflowAssumption
  <2>2. WfTypeOK
    BY DEF AlertInv
  <2>3. wfNow \in Nat /\ Len(wfLog) \in Nat
    BY <2>1, <2>2 DEF WfTypeOK
  <2> QED BY <2>1, <2>2, <2>3 DEF WfTypeOK
<1>n. /\ MaxAttempts \in Nat /\ attempts \in Nat /\ phase \in Nat
      /\ \A q \in 1 .. 3 : alerts[q] \in Nat /\ flying[q] \in Nat
  BY <1>t
\* One more of what was told, or is being told.
<1>m. /\ \A a, f, n \in Nat : a + f <= n /\ n < MaxAttempts =>
           /\ a + 1 + f <= n + 1 /\ a + (f + 1) <= n + 1 /\ n + 1 <= MaxAttempts
           /\ a + 1 + f <= MaxAttempts /\ a + (f + 1) <= MaxAttempts
           /\ a + 1 \in 0 .. MaxAttempts /\ f + 1 \in 0 .. MaxAttempts /\ n + 1 \in 0 .. MaxAttempts
      /\ \A a, f \in Nat : a + f <= MaxAttempts => a \in 0 .. MaxAttempts /\ f \in 0 .. MaxAttempts
  BY <1>n
<1>a. ASSUME UNCHANGED <<phase, wf, attempts, late, flying, alerts>>, WfTypeOK'
      PROVE  AlertInv'
  BY <1>a DEF AlertInv, AlertedAtLeastOnce
<1>1. CASE WfTick
  <2>1. wfNow' \in 0 .. MaxWfTime /\ since \in 0 .. wfNow'
    BY <1>t, <1>1, WorkflowAssumption DEF WfTick
  <2>2. WfTypeOK'
    BY <1>1, <2>1 DEF AlertInv, WfTypeOK, WfTick
  <2> QED BY <1>a, <1>1, <2>2 DEF WfTick
<1>2. CASE Record
  <2>1. PICK m \in MilestoneTypes : wfLog' = Append(wfLog, [type |-> m, at |-> wfNow])
    BY <1>2 DEF Record
  <2>2. [type |-> m, at |-> wfNow] \in [type : DOMAIN FlagOf, at : 0 .. MaxWfTime]
    BY <1>t, FlagsOfTypes
  <2>3. /\ wfLog' \in Seq([type : DOMAIN FlagOf, at : 0 .. MaxWfTime])
        /\ Len(wfLog') = Len(wfLog) + 1
    BY <2>1, <2>2 DEF AlertInv, WfTypeOK
  <2>4. signalled \in 0 .. Len(wfLog')
    BY <1>t, <2>3
  <2>5. WfTypeOK'
    BY <1>2, <2>3, <2>4 DEF AlertInv, WfTypeOK, Record
  <2> QED BY <1>a, <1>2, <2>5 DEF Record
<1>3. CASE Signal
  <2>1. signalled + 1 \in 1 .. Len(wfLog)
    BY <1>t, <1>3 DEF Signal
  <2>2. wfLog[signalled + 1].type \in DOMAIN FlagOf
    <3>1. wfLog \in Seq([type : DOMAIN FlagOf, at : 0 .. MaxWfTime])
      BY DEF AlertInv, WfTypeOK
    <3>2. \A i \in 1 .. Len(wfLog) : wfLog[i] \in [type : DOMAIN FlagOf, at : 0 .. MaxWfTime]
      BY <3>1, EntryOfLog
    <3> PICK e : e = wfLog[signalled + 1]
      OBVIOUS
    <3>3. e \in [type : DOMAIN FlagOf, at : 0 .. MaxWfTime]
      BY <2>1, <3>2
    <3> QED BY <3>3
  <2>3. FlagOf[wfLog[signalled + 1].type] \in Flags
    BY <2>2, FlagsOfTypes
  <2>4. seen' \subseteq Flags \cup {"cancelled"}
    BY <1>3, <2>3 DEF Signal, AlertInv, WfTypeOK, Flags
  <2>5. WfTypeOK'
    BY <1>t, <1>3, <2>1, <2>4 DEF AlertInv, WfTypeOK, Signal, Flags
  <2> QED BY <1>a, <1>3, <2>5 DEF Signal
<1>4. CASE SignalLost
  <2>1. WfTypeOK'
    BY <1>t, <1>4 DEF AlertInv, WfTypeOK, SignalLost
  <2> QED BY <1>a, <1>4, <2>1 DEF SignalLost
<1>5. CASE StartWorkflow
  <2>1. WfTypeOK'
    BY <1>t, <1>5 DEF AlertInv, WfTypeOK, StartWorkflow
  <2> QED BY <1>t, <1>5, <2>1 DEF AlertInv, AlertedAtLeastOnce, StartWorkflow
<1>6. CASE Cancel
  <2>1. WfTypeOK'
    BY <1>6 DEF AlertInv, WfTypeOK, Cancel
  <2> QED BY <1>a, <1>6, <2>1 DEF Cancel
<1>7. CASE Proceed
  <2>1. UNCHANGED <<wfNow, wfLog, signalled, lost, seen, attempts, late, flying, alerts>>
    BY <1>7 DEF Proceed
  <2>2. \A p \in late : alerts[p] > 0
    BY <1>7 DEF Proceed, AlertInv, AlertedAtLeastOnce
  <2>3. CASE wf' = "ended" /\ UNCHANGED <<phase, since>>
    <3>1. WfTypeOK'
      BY <2>1, <2>3 DEF AlertInv, WfTypeOK
    <3> QED BY <2>1, <2>2, <2>3, <3>1 DEF AlertInv, AlertedAtLeastOnce
  <2>4. CASE phase < 4 /\ Enter(phase + 1)
    <3>1. /\ phase' = phase + 1 /\ phase + 1 \in 1 .. 4 /\ since' = wfNow
          /\ wf' = IF phase + 1 = 4 THEN "signal" ELSE "timer"
      BY <1>t, <2>4 DEF Enter
    <3>2. WfTypeOK'
      BY <1>t, <2>1, <3>1 DEF AlertInv, WfTypeOK
    <3>3. \A p \in late : p <= phase /\ p \in 1 .. 3
      BY <1>t DEF AlertInv
    <3>4. phase' \notin late'
      BY <1>t, <2>1, <3>1, <3>3
    <3>5. AlertedAtLeastOnce'
      BY <2>1, <2>2 DEF AlertInv, AlertedAtLeastOnce
    <3>6. \A p \in late : p <= phase'
      BY <1>t, <3>1, <3>3
    <3>7. /\ wf' # "absent" /\ wf' # "activity"
          /\ wf' = "timer" => phase' \in 1 .. 3
      BY <1>t, <3>1
    <3> QED BY <2>1, <3>2, <3>4, <3>5, <3>6, <3>7 DEF AlertInv
  <2> QED BY <1>7, <2>3, <2>4 DEF Proceed
<1>8. CASE Timeout
  <2>1. /\ wf = "timer" /\ wf' = "activity" /\ late' = late \cup {phase} /\ attempts' = 0
        /\ UNCHANGED <<wfNow, wfLog, signalled, lost, seen, phase, since, flying, alerts>>
        /\ phase \in 1 .. 3 /\ phase \notin late
    BY <1>8 DEF Timeout, AlertInv
  <2>2. WfTypeOK'
    BY <1>t, <2>1 DEF AlertInv, WfTypeOK
  <2>3. alerts[phase] + flying[phase] = 0
    <3>1. ~(alerts[phase] + flying[phase] > 0) /\ alerts[phase] \in Nat /\ flying[phase] \in Nat
      BY <1>t, <2>1 DEF AlertInv, AlertedAtLeastOnce
    <3> QED BY <3>1
  <2>4. AlertedAtLeastOnce'
    BY <1>t, <2>1 DEF AlertInv, AlertedAtLeastOnce
  <2> QED BY <1>t, <2>1, <2>2, <2>3, <2>4 DEF AlertInv
\* The activity has answered, or one more attempt was made.
<1>9. CASE AttemptSucceeds
  <2>1. /\ wf = "activity" /\ alerts' = [alerts EXCEPT ![phase] = @ + 1]
        /\ UNCHANGED <<wfNow, wfLog, signalled, lost, seen, attempts, late, flying>>
        /\ phase \in 1 .. 3 /\ phase \in late /\ attempts < MaxAttempts
        /\ alerts[phase] + flying[phase] <= attempts
    BY <1>9 DEF AttemptSucceeds, AlertInv
  <2>2. /\ alerts[phase] \in Nat /\ flying[phase] \in Nat
        /\ alerts'[phase] = alerts[phase] + 1
        /\ \A p \in 1 .. 3 : p # phase => alerts'[p] = alerts[p]
    BY <1>t, <2>1
  <2>3. alerts'[phase] + flying[phase] <= MaxAttempts /\ alerts'[phase] \in 0 .. MaxAttempts
    BY <1>n, <1>m, <2>1, <2>2
  <2>4. alerts' \in [1 .. 3 -> 0 .. MaxAttempts]
    BY <1>t, <2>1, <2>3
  <2>5. \A p \in late : alerts'[p] > 0 \/ p = phase
    BY <1>t, <2>2 DEF AlertInv, AlertedAtLeastOnce
  <2>6. \A p \in late : alerts'[p] > 0
    BY <2>2, <2>5
  <2>7. (\A p \in 1 .. 3 : alerts[p] + flying[p] <= MaxAttempts)'
        /\ (\A p \in 1 .. 3 : alerts[p] + flying[p] > 0 => p \in late)'
    BY <2>1, <2>2, <2>3 DEF AlertInv, AlertedAtLeastOnce
  <2>8. AlertedAtLeastOnce'
    BY <2>1, <2>6, <2>7 DEF AlertedAtLeastOnce
  <2>9. /\ wf' = "signal" /\ phase' \in 1 .. 4 /\ since' \in 0 .. wfNow /\ phase <= phase'
    BY <1>t, <1>9 DEF AttemptSucceeds, AfterAlert, Enter
  <2>10. WfTypeOK'
    BY <2>1, <2>4, <2>9 DEF AlertInv, WfTypeOK
  <2>11. \A p \in late : p <= phase'
    BY <1>t, <2>9 DEF AlertInv
  <2> QED BY <2>1, <2>8, <2>9, <2>10, <2>11 DEF AlertInv
<1>10. CASE AttemptFails
  <2>1. /\ wf = "activity" /\ flying' = [flying EXCEPT ![phase] = @ + 1]
        /\ attempts' = attempts + 1
        /\ wf' = IF attempts + 1 = MaxAttempts THEN "failed" ELSE wf
        /\ UNCHANGED <<wfNow, wfLog, signalled, lost, seen, phase, since, late, alerts>>
        /\ phase \in 1 .. 3 /\ phase \in late /\ attempts < MaxAttempts
        /\ alerts[phase] + flying[phase] <= attempts
    BY <1>10 DEF AttemptFails, Retry, AlertInv
  <2>2. /\ alerts[phase] \in Nat /\ flying[phase] \in Nat
        /\ flying'[phase] = flying[phase] + 1
        /\ \A p \in 1 .. 3 : p # phase => flying'[p] = flying[p]
    BY <1>t, <2>1
  <2>3. /\ alerts[phase] + flying'[phase] <= attempts + 1 /\ attempts + 1 <= MaxAttempts
        /\ alerts[phase] + flying'[phase] <= MaxAttempts
        /\ flying'[phase] \in 0 .. MaxAttempts /\ attempts + 1 \in 0 .. MaxAttempts
    BY <1>n, <1>m, <2>1, <2>2
  <2>4. flying' \in [1 .. 3 -> 0 .. MaxAttempts]
    BY <1>t, <2>1, <2>3
  <2>5. WfTypeOK'
    BY <2>1, <2>3, <2>4 DEF AlertInv, WfTypeOK
  <2>6. AlertedAtLeastOnce'
    BY <2>1, <2>2, <2>3 DEF AlertInv, AlertedAtLeastOnce
  <2>7. wf' \in {"failed", "activity"} /\ (wf' = "activity" => attempts + 1 < MaxAttempts)
    BY <1>t, <2>1
  <2> QED BY <2>1, <2>3, <2>5, <2>6, <2>7 DEF AlertInv
<1>11. ASSUME NEW p \in 1 .. 3, InsertLands(p) \/ InsertDies(p) PROVE AlertInv'
  <2>1. /\ flying[p] > 0 /\ flying' = [flying EXCEPT ![p] = @ - 1]
        /\ alerts' = alerts \/ alerts' = [alerts EXCEPT ![p] = @ + 1]
        /\ UNCHANGED <<wfNow, wfLog, signalled, lost, seen, phase, wf, since, attempts, late>>
    BY <1>11 DEF InsertLands, InsertDies
  <2>2. \A q \in 1 .. 3 :
          /\ alerts'[q] \in Nat /\ flying'[q] \in Nat /\ alerts'[q] >= alerts[q]
          /\ alerts'[q] + flying'[q] <= alerts[q] + flying[q]
    <3> SUFFICES ASSUME NEW q \in 1 .. 3
                 PROVE  /\ alerts'[q] \in Nat /\ flying'[q] \in Nat /\ alerts'[q] >= alerts[q]
                        /\ alerts'[q] + flying'[q] <= alerts[q] + flying[q]
      OBVIOUS
    <3>1. CASE q = p
      <4>1. /\ flying'[q] = flying[q] - 1
            /\ alerts'[q] = alerts[q] \/ alerts'[q] = alerts[q] + 1
        BY <1>t, <2>1, <3>1
      <4> QED BY <1>n, <2>1, <3>1, <4>1
    <3>2. CASE q # p
      <4>1. flying'[q] = flying[q] /\ alerts'[q] = alerts[q]
        BY <1>t, <2>1, <3>2
      <4> QED BY <1>n, <4>1
    <3> QED BY <3>1, <3>2
  <2>3. \A q \in 1 .. 3 : alerts'[q] + flying'[q] <= MaxAttempts
    <3>1. \A q \in 1 .. 3 : alerts[q] + flying[q] <= MaxAttempts
      BY DEF AlertInv, AlertedAtLeastOnce
    <3> QED BY <1>n, <2>2, <3>1
  <2>4. /\ flying' \in [1 .. 3 -> 0 .. MaxAttempts] /\ alerts' \in [1 .. 3 -> 0 .. MaxAttempts]
    <3>1. \A q \in 1 .. 3 : alerts'[q] \in 0 .. MaxAttempts /\ flying'[q] \in 0 .. MaxAttempts
      BY <1>m, <2>2, <2>3
    <3>2. /\ flying' = [q \in 1 .. 3 |-> flying'[q]] /\ alerts' = [q \in 1 .. 3 |-> alerts'[q]]
      BY <1>t, <2>1
    <3> QED BY <3>1, <3>2
  <2>5. WfTypeOK'
    BY <2>1, <2>4 DEF AlertInv, WfTypeOK
  <2>7. \A q \in 1 .. 3 : alerts'[q] + flying'[q] > 0 => q \in late
    <3>1. \A q \in 1 .. 3 : alerts'[q] + flying'[q] > 0 => alerts[q] + flying[q] > 0
      BY <1>n, <2>2
    <3> QED BY <3>1 DEF AlertInv, AlertedAtLeastOnce
  <2>8. \A q \in late : q \in 1 .. 3 /\ (alerts[q] > 0 => alerts'[q] > 0)
    <3>1. \A q \in late : q \in 1 .. 3
      BY <1>t
    <3> QED BY <1>n, <2>2, <3>1
  <2>9. AlertedAtLeastOnce'
    BY <2>1, <2>3, <2>7, <2>8 DEF AlertInv, AlertedAtLeastOnce
  <2>10. wf = "activity" => alerts'[phase] + flying'[phase] <= attempts
    <3> SUFFICES ASSUME wf = "activity" PROVE alerts'[phase] + flying'[phase] <= attempts
      OBVIOUS
    <3>1. phase \in 1 .. 3 /\ alerts[phase] + flying[phase] <= attempts
      BY DEF AlertInv
    <3> QED BY <1>n, <2>2, <3>1
  <2> QED BY <2>1, <2>5, <2>9, <2>10 DEF AlertInv
<1>12. CASE UNCHANGED wfVars
  BY <1>12 DEF wfVars, AlertInv, WfTypeOK, AlertedAtLeastOnce
<1> QED BY <1>1, <1>2, <1>3, <1>4, <1>5, <1>6, <1>7, <1>8, <1>9, <1>10, <1>11, <1>12
  DEF WfNext, Worker

\* The workflow's variables keep their types: in particular no more alerts of a
\* phase than attempts.
THEOREM WorkflowTypeCorrect == WfSpec => []WfTypeOK
<1>1. WfInit => AlertInv
  BY AlertInit
<1>2. AlertInv /\ [WfNext]_wfVars => AlertInv'
  BY AlertStepInv
<1>3. AlertInv => WfTypeOK
  BY DEF AlertInv
<1> QED BY <1>1, <1>2, <1>3, PTL DEF WfSpec

\* A phase is told of before the workflow leaves it, and once per attempt at most,
\* whatever is lost, retried, late or cancelled.
THEOREM ToldBeforeGoingOn == WfSpec => []AlertedAtLeastOnce
<1>1. WfInit => AlertInv
  BY AlertInit
<1>2. AlertInv /\ [WfNext]_wfVars => AlertInv'
  BY AlertStepInv
<1>3. AlertInv => AlertedAtLeastOnce
  BY DEF AlertInv
<1> QED BY <1>1, <1>2, <1>3, PTL DEF WfSpec

-----------------------------------------------------------------------------
(* The workflow of a shipment: what its timers mean.                       *)

RowsOf(flag) == {i \in DOMAIN wfLog : FlagOf[wfLog[i].type] = flag}

\* What a signal told is on the log, what was recorded is not later than now, and
\* every signal that was not lost has told.
HeardSound ==
  /\ \A i \in DOMAIN wfLog : wfLog[i].at \in Nat /\ wfLog[i].at <= wfNow
  /\ \A f \in seen : f # "cancelled" => RowsOf(f) # {}
  /\ lost = {} => \A i \in 1 .. signalled : FlagOf[wfLog[i].type] \in seen

\* What began the phase whose timer runs happened before it was started.
BeganSound ==
  /\ wf = "timer" /\ phase = 2 => \E i \in RowsOf("departed") : wfLog[i].at <= since
  /\ wf = "timer" /\ phase = 3 => \E i \in RowsOf("arrived") : wfLog[i].at <= since

AgreeInv == AlertInv /\ HeardSound /\ BeganSound

LEMMA LogFacts ==
  ASSUME WfTypeOK
  PROVE  /\ DOMAIN wfLog = 1 .. Len(wfLog) /\ Len(wfLog) \in Nat
         /\ signalled \in Nat /\ signalled <= Len(wfLog)
         /\ wfNow \in Nat /\ since \in Nat /\ since <= wfNow
         /\ \A i \in DOMAIN wfLog : FlagOf[wfLog[i].type] \in Flags
<1>1. MaxWfTime \in Nat
  BY WorkflowAssumption
<1>2. wfLog \in Seq([type : DOMAIN FlagOf, at : 0 .. MaxWfTime]) /\ wfNow \in 0 .. MaxWfTime
  BY DEF WfTypeOK
<1>3. DOMAIN wfLog = 1 .. Len(wfLog) /\ Len(wfLog) \in Nat /\ wfNow \in Nat
  BY <1>1, <1>2
<1>4. \A i \in DOMAIN wfLog : wfLog[i].type \in DOMAIN FlagOf
  <2>1. \A i \in DOMAIN wfLog : wfLog[i] \in [type : DOMAIN FlagOf, at : 0 .. MaxWfTime]
    BY <1>2, <1>3, EntryOfLog
  <2> QED BY <2>1
<1>5. \A i \in DOMAIN wfLog : FlagOf[wfLog[i].type] \in Flags
  BY <1>4, FlagsOfTypes
<1> QED BY <1>3, <1>5 DEF WfTypeOK

\* Of the reports of a milestone the first counts.
LEMMA FirstOfIsFirst ==
  ASSUME HeardSound, NEW f
  PROVE  /\ RowsOf(f) = {} => FirstOf(f) = Never
         /\ \A i \in RowsOf(f) :
              FirstOf(f) \in Nat /\ FirstOf(f) # Never /\ FirstOf(f) <= wfLog[i].at
<1>1. Occurred(f) = {wfLog[i].at : i \in RowsOf(f)}
  BY DEF Occurred, RowsOf
<1>2. CASE RowsOf(f) = {}
  BY <1>1, <1>2 DEF FirstOf
<1>3. CASE RowsOf(f) # {}
  <2>1. Occurred(f) \in SUBSET Nat /\ Occurred(f) # {}
    BY <1>1, <1>3 DEF HeardSound, RowsOf
  <2>2. \E t \in Occurred(f) : \A u \in Occurred(f) : t <= u
    BY <2>1, LeastNumber
  <2>3. FirstOf(f) = CHOOSE t \in Occurred(f) : \A u \in Occurred(f) : t <= u
    BY <2>1, Zenon DEF FirstOf
  <2>4. FirstOf(f) \in Occurred(f) /\ \A u \in Occurred(f) : FirstOf(f) <= u
    BY <2>2, <2>3, Zenon
  <2>5. FirstOf(f) \in Nat
    BY <2>1, <2>4
  <2> QED BY <1>1, <1>3, <2>4, <2>5 DEF Never
<1> QED BY <1>2, <1>3

LEMMA AgreeStepInv ==
  ASSUME AgreeInv, [WfNext]_wfVars
  PROVE  AgreeInv'
<1>0. AlertInv /\ AlertInv' /\ WfTypeOK /\ WfTypeOK'
  BY AlertStepInv DEF AgreeInv, AlertInv
<1>t. /\ DOMAIN wfLog = 1 .. Len(wfLog) /\ Len(wfLog) \in Nat
      /\ signalled \in Nat /\ signalled <= Len(wfLog)
      /\ wfNow \in Nat /\ since \in Nat /\ since <= wfNow
  BY <1>0, LogFacts
<1>h. HeardSound /\ BeganSound
  BY DEF AgreeInv
\* Neither the log nor what was heard of it changes.
<1>a. ASSUME UNCHANGED <<wfNow, wfLog, signalled, lost>>,
             seen' = seen \/ seen' = seen \cup {"cancelled"}
      PROVE  HeardSound'
  BY <1>a, <1>h DEF HeardSound, RowsOf
<1>b. ASSUME UNCHANGED wfLog, \/ wf' # "timer"
                              \/ wf' = wf /\ phase' = phase /\ since' = since
                              \/ phase' = 1
      PROVE  BeganSound'
  BY <1>b, <1>h DEF BeganSound, RowsOf
<1>1. CASE WfTick
  <2>1. HeardSound'
    BY <1>t, <1>h, <1>1 DEF WfTick, HeardSound, RowsOf
  <2> QED BY <1>0, <1>b, <1>1, <2>1 DEF WfTick, AgreeInv
<1>2. CASE Record
  <2>1. PICK m \in MilestoneTypes : wfLog' = Append(wfLog, [type |-> m, at |-> wfNow])
    BY <1>2 DEF Record
  <2> PICK n : n = Len(wfLog) + 1
    OBVIOUS
  <2>2. /\ DOMAIN wfLog' = 1 .. n
        /\ \A i \in DOMAIN wfLog : i \in DOMAIN wfLog' /\ wfLog'[i] = wfLog[i]
        /\ wfLog'[n] = [type |-> m, at |-> wfNow]
    <3>1. wfLog \in Seq([type : DOMAIN FlagOf, at : 0 .. MaxWfTime])
      BY <1>0 DEF WfTypeOK
    <3> QED BY <1>t, <2>1, <3>1
  <2>3. UNCHANGED <<wfNow, signalled, lost, seen, phase, wf, since>>
    BY <1>2 DEF Record
  <2>4. \A f : RowsOf(f) \subseteq RowsOf(f)'
    BY <2>2 DEF RowsOf
  <2>5. \A i \in DOMAIN wfLog' : wfLog'[i].at \in Nat /\ wfLog'[i].at <= wfNow
    <3>1. \A i \in DOMAIN wfLog' : i \in DOMAIN wfLog \/ i = n
      BY <1>t, <2>2
    <3> QED BY <1>t, <1>h, <2>2, <3>1 DEF HeardSound
  <2>6. \A i \in 1 .. signalled : wfLog'[i] = wfLog[i]
    BY <1>t, <2>2
  <2>7. HeardSound'
    BY <1>h, <2>3, <2>4, <2>5, <2>6 DEF HeardSound
  <2>8. \A f : \A i \in RowsOf(f) : wfLog'[i] = wfLog[i]
    BY <2>2 DEF RowsOf
  <2>9. BeganSound'
    BY <1>h, <2>3, <2>4, <2>8 DEF BeganSound
  <2> QED BY <1>0, <2>7, <2>9 DEF AgreeInv
<1>3. CASE Signal
  <2> PICK n : n = signalled + 1
    OBVIOUS
  <2>1. /\ n \in DOMAIN wfLog /\ signalled' = n /\ seen' = seen \cup {FlagOf[wfLog[n].type]}
        /\ UNCHANGED <<wfNow, wfLog, lost, phase, wf, since>>
    BY <1>t, <1>3 DEF Signal
  <2>2. n \in RowsOf(FlagOf[wfLog[n].type])
    BY <2>1 DEF RowsOf
  <2>3. \A f \in seen' : f # "cancelled" => RowsOf(f)' # {}
    BY <1>h, <2>1, <2>2 DEF HeardSound, RowsOf
  <2>4. lost = {} => \A i \in 1 .. n : FlagOf[wfLog[i].type] \in seen'
    <3>1. \A i \in 1 .. n : i \in 1 .. signalled \/ i = n
      BY <1>t
    <3> QED BY <1>h, <2>1, <3>1 DEF HeardSound
  <2>5. HeardSound'
    BY <1>h, <2>1, <2>3, <2>4 DEF HeardSound
  <2> QED BY <1>0, <1>b, <2>1, <2>5 DEF AgreeInv
<1>4. CASE SignalLost
  <2>1. /\ lost' = lost \cup {signalled + 1}
        /\ UNCHANGED <<wfNow, wfLog, seen, phase, wf, since>>
    BY <1>4 DEF SignalLost
  <2>2. HeardSound'
    BY <1>h, <2>1 DEF HeardSound, RowsOf
  <2> QED BY <1>0, <1>b, <2>1, <2>2 DEF AgreeInv
<1>5. CASE StartWorkflow
  <2>1. UNCHANGED <<wfNow, wfLog, signalled, lost, seen>> /\ phase' = 1
    BY <1>0, <1>5 DEF StartWorkflow, AlertInv
  <2> QED BY <1>0, <1>a, <1>b, <2>1 DEF AgreeInv
<1>6. CASE Cancel
  <2>1. UNCHANGED <<wfNow, wfLog, signalled, lost, phase, wf, since>> /\ seen' = seen \cup {"cancelled"}
    BY <1>6 DEF Cancel
  <2> QED BY <1>0, <1>a, <1>b, <2>1 DEF AgreeInv
<1>7. CASE Proceed
  <2>1. UNCHANGED <<wfNow, wfLog, signalled, lost, seen>> /\ Met
    BY <1>7 DEF Proceed
  <2>2. CASE wf' = "ended"
    BY <1>0, <1>a, <1>b, <2>1, <2>2 DEF AgreeInv
  <2>3. CASE phase < 4 /\ (phase = 3 \/ "cancelled" \notin seen) /\ Enter(phase + 1)
    <3>1. /\ phase' = phase + 1 /\ since' = wfNow
          /\ wf' = IF phase + 1 = 4 THEN "signal" ELSE "timer"
      BY <2>3 DEF Enter
    <3>2. phase \in 1 .. 3
      <4>1. phase \in 1 .. 4
        BY <1>0 DEF WfTypeOK
      <4> QED BY <2>3, <4>1
    <3>3. CASE phase = 3
      BY <1>0, <1>a, <1>b, <2>1, <3>1, <3>3 DEF AgreeInv
    <3>4. CASE phase = 2
      <4>1. "arrived" \in seen
        BY <2>1, <2>3, <3>4 DEF Met, Awaited
      <4>2. \E i \in RowsOf("arrived") : wfLog[i].at <= wfNow
        BY <1>h, <4>1 DEF HeardSound, RowsOf
      <4>3. BeganSound'
        BY <2>1, <3>1, <3>4, <4>2 DEF BeganSound, RowsOf
      <4> QED BY <1>0, <1>a, <2>1, <4>3 DEF AgreeInv
    <3>5. CASE phase = 1
      <4>1. "departed" \in seen
        BY <2>1, <2>3, <3>5 DEF Met, Awaited
      <4>2. \E i \in RowsOf("departed") : wfLog[i].at <= wfNow
        BY <1>h, <4>1 DEF HeardSound, RowsOf
      <4>3. BeganSound'
        BY <2>1, <3>1, <3>5, <4>2 DEF BeganSound, RowsOf
      <4> QED BY <1>0, <1>a, <2>1, <4>3 DEF AgreeInv
    <3> QED BY <3>2, <3>3, <3>4, <3>5
  <2> QED BY <1>7, <2>2, <2>3 DEF Proceed
<1>8. CASE Timeout
  <2>1. UNCHANGED <<wfNow, wfLog, signalled, lost, seen>> /\ wf' # "timer"
    BY <1>8 DEF Timeout
  <2> QED BY <1>0, <1>a, <1>b, <2>1 DEF AgreeInv
<1>9. CASE AttemptSucceeds \/ AttemptFails
  <2>1. UNCHANGED <<wfNow, wfLog, signalled, lost, seen>> /\ wf' # "timer"
    BY <1>9 DEF AttemptSucceeds, AttemptFails, AfterAlert, Retry, Enter
  <2> QED BY <1>0, <1>a, <1>b, <2>1 DEF AgreeInv
<1>10. ASSUME NEW p \in 1 .. 3, InsertLands(p) \/ InsertDies(p) PROVE AgreeInv'
  <2>1. UNCHANGED <<wfNow, wfLog, signalled, lost, seen, phase, wf, since>>
    BY <1>10 DEF InsertLands, InsertDies
  <2> QED BY <1>0, <1>a, <1>b, <2>1 DEF AgreeInv
<1>11. CASE UNCHANGED wfVars
  <2>1. UNCHANGED <<wfNow, wfLog, signalled, lost, seen, phase, wf, since>>
    BY <1>11 DEF wfVars
  <2> QED BY <1>0, <1>a, <1>b, <2>1 DEF AgreeInv
<1> QED BY <1>1, <1>2, <1>3, <1>4, <1>5, <1>6, <1>7, <1>8, <1>9, <1>10, <1>11
  DEF WfNext, Worker

\* When a timer ends and every signal has told, the rule of its phase holds of the log.
LEMMA TimerAgrees ==
  ASSUME AgreeInv, Timeout, lost = {}, signalled >= Len(wfLog)
  PROVE  RuleOf(phase)
<1>0. /\ AlertInv /\ WfTypeOK /\ HeardSound /\ BeganSound
      /\ wf = "timer" /\ ~Met /\ wfNow - since >= Budget /\ phase \in 1 .. 3
  BY DEF AgreeInv, AlertInv, Timeout
<1>t. /\ DOMAIN wfLog = 1 .. Len(wfLog) /\ Len(wfLog) \in Nat
      /\ signalled \in Nat /\ signalled <= Len(wfLog)
      /\ wfNow \in Nat /\ since \in Nat /\ since <= wfNow
      /\ Sla.departure \in Nat /\ Sla.transit \in Nat /\ Sla.customs \in Nat
  BY <1>0, LogFacts, WorkflowAssumption
<1>p. /\ Position.booked = 0 /\ Position.departed = FirstOf("departed")
      /\ Position.arrived = FirstOf("arrived") /\ Position.released = FirstOf("released")
  BY DEF Position
\* What the workflow has not heard of is not on the log.
<1>1. ASSUME NEW f, f \notin seen
      PROVE  FirstOf(f) = Never
  <2>1. \A i \in DOMAIN wfLog : FlagOf[wfLog[i].type] \in seen
    BY <1>0, <1>t DEF HeardSound
  <2>2. RowsOf(f) = {}
    BY <1>1, <2>1 DEF RowsOf
  <2> QED BY <1>0, <2>2, FirstOfIsFirst
<1>2. ASSUME NEW f, NEW i \in RowsOf(f), wfLog[i].at <= since
      PROVE  FirstOf(f) # Never /\ FirstOf(f) \in Nat /\ FirstOf(f) <= since
  <2>1. FirstOf(f) \in Nat /\ FirstOf(f) # Never /\ FirstOf(f) <= wfLog[i].at /\ wfLog[i].at \in Nat
    BY <1>0, FirstOfIsFirst DEF HeardSound, RowsOf
  <2> QED BY <1>t, <1>2, <2>1
<1>3. CASE phase = 1
  <2>1. FirstOf("departed") = Never
    BY <1>0, <1>1, <1>3 DEF Met, Awaited
  <2>2. (wfNow + 1) - 0 > Sla.departure
    BY <1>0, <1>t, <1>3 DEF Budget
  <2>3. NotDeparted(Position, wfNow + 1, Sla)
    <3> PICK m : m = wfNow + 1
      OBVIOUS
    <3>1. Position.departed = Never /\ m - Position.booked > Sla.departure
      BY <1>p, <2>1, <2>2
    <3>2. NotDeparted(Position, m, Sla)
      BY <3>1 DEF NotDeparted
    <3> QED BY <3>2
  <2> QED BY <1>3, <2>3 DEF RuleOf
<1>4. CASE phase = 2
  <2>1. FirstOf("arrived") = Never
    BY <1>0, <1>1, <1>4 DEF Met, Awaited
  <2>2. FirstOf("departed") # Never /\ FirstOf("departed") \in Nat /\ FirstOf("departed") <= since
    BY <1>0, <1>2, <1>4 DEF BeganSound
  <2>3. wfNow - since >= Sla.transit
    BY <1>0, <1>4 DEF Budget
  <2>4. (wfNow + 1) - FirstOf("departed") > Sla.transit
    BY <1>t, <2>2, <2>3
  <2>5. NotArrived(Position, wfNow + 1, Sla)
    <3> PICK m : m = wfNow + 1
      OBVIOUS
    <3>1. /\ Position.departed # Never /\ Position.arrived = Never
          /\ m - Position.departed > Sla.transit
      <4>1. m - FirstOf("departed") > Sla.transit
        BY <1>t, <2>2, <2>4
      <4> QED BY <1>p, <2>1, <2>2, <4>1, Zenon
    <3>2. NotArrived(Position, m, Sla)
      BY <3>1 DEF NotArrived
    <3> QED BY <3>2
  <2> QED BY <1>4, <2>5 DEF RuleOf
<1>5. CASE phase = 3
  <2>1. FirstOf("released") = Never
    BY <1>0, <1>1, <1>5 DEF Met, Awaited
  <2>2. FirstOf("arrived") # Never /\ FirstOf("arrived") \in Nat /\ FirstOf("arrived") <= since
    BY <1>0, <1>2, <1>5 DEF BeganSound
  <2>3. wfNow - since >= Sla.customs
    BY <1>0, <1>5 DEF Budget
  <2>4. (wfNow + 1) - FirstOf("arrived") > Sla.customs
    BY <1>t, <2>2, <2>3
  <2>5. NotReleased(Position, wfNow + 1, Sla)
    <3> PICK m : m = wfNow + 1
      OBVIOUS
    <3>1. /\ Position.arrived # Never /\ Position.released = Never
          /\ m - Position.arrived > Sla.customs
      <4>1. m - FirstOf("arrived") > Sla.customs
        BY <1>t, <2>2, <2>4
      <4> QED BY <1>p, <2>1, <2>2, <4>1, Zenon
    <3>2. NotReleased(Position, m, Sla)
      BY <3>1 DEF NotReleased
    <3> QED BY <3>2
  <2> QED BY <1>5, <2>5 DEF RuleOf
<1> QED BY <1>0, <1>3, <1>4, <1>5

\* A timer ends a phase only when the sweep's rule of that phase holds of the log,
\* unless a signal is lost or the signaler behind: for any budgets, any order of
\* milestones, and however often it is cancelled or an attempt fails.
THEOREM TimersAgreeWithRules == WfSpec => WorkflowAgrees
<1>1. WfInit => AgreeInv
  <2> SUFFICES ASSUME WfInit PROVE AgreeInv
    OBVIOUS
  <2>1. HeardSound /\ BeganSound
    BY DEF WfInit, HeardSound, BeganSound
  <2> QED BY <2>1, AlertInit DEF AgreeInv
<1>2. AgreeInv /\ [WfNext]_wfVars => AgreeInv'
  BY AgreeStepInv
<1>3. AgreeInv /\ [WfNext]_wfVars
        => [\A p \in 1 .. 3 : p \in late' \ late =>
              RuleOf(p) \/ lost # {} \/ signalled < Len(wfLog)]_wfVars
  <2> SUFFICES ASSUME AgreeInv, WfNext, NEW p \in 1 .. 3, p \in late' \ late,
                      lost = {}, ~(signalled < Len(wfLog))
               PROVE  RuleOf(p)
    OBVIOUS
  <2>1. Timeout /\ p = phase
    <3>1. Timeout \/ late' = late
      BY DEF WfNext, Worker, WfTick, Record, Signal, SignalLost, StartWorkflow, Cancel,
             Proceed, AttemptSucceeds, AttemptFails, InsertLands, InsertDies
    <3>2. Timeout => late' = late \cup {phase}
      BY DEF Timeout
    <3> QED BY <3>1, <3>2
  <2>2. signalled >= Len(wfLog)
    BY LogFacts DEF AgreeInv, AlertInv
  <2> QED BY <2>1, <2>2, TimerAgrees
<1> QED BY <1>1, <1>2, <1>3, PTL DEF WfSpec, WorkflowAgrees

-----------------------------------------------------------------------------
(* Reading the book page by page.                                          *)

HIDE BookingAssumption

\* Rows of a book, which are told apart by their ids.
Rowed(rows) ==
  /\ IsFiniteSet(rows)
  /\ \A r \in rows : r.at \in Nat /\ r.id \in Nat
  /\ \A r, s \in rows : r.id = s.id => r = s

Rank(rows, r) == Cardinality({s \in rows : Before(s, r)})

\* Newest first is an order of the rows, in which each has its rank.
LEMMA InOrder ==
  ASSUME NEW rows, Rowed(rows)
  PROVE  /\ \A r, s \in rows : r = s \/ Before(r, s) \/ Before(s, r)
         /\ \A r \in rows : Rank(rows, r) \in Nat
         /\ \A r, s \in rows : Before(r, s) => Rank(rows, r) < Rank(rows, s)
<1>1. \A r, s \in rows : r = s \/ Before(r, s) \/ Before(s, r)
  BY DEF Rowed, Before
<1> DEFINE To(r) == {s \in rows : Before(s, r)}
<1>2. \A r \in rows : IsFiniteSet(To(r)) /\ Cardinality(To(r)) \in Nat
  BY FS_Subset, FS_CardinalityType DEF Rowed
<1>3. ASSUME NEW r \in rows, NEW s \in rows, Before(r, s)
      PROVE  Cardinality(To(r)) < Cardinality(To(s))
  <2>1. To(r) \in SUBSET To(s)
    BY <1>3 DEF Rowed, Before
  <2>2. r \in To(s) /\ r \notin To(r)
    BY <1>3 DEF Rowed, Before
  <2> HIDE DEF To
  <2>3. /\ Cardinality(To(r)) <= Cardinality(To(s))
        /\ Cardinality(To(s)) = Cardinality(To(r)) => To(s) = To(r)
    BY <1>2, <2>1, FS_Subset
  <2> QED BY <1>2, <2>2, <2>3
<1>4. \A r \in rows : Rank(rows, r) = Cardinality(To(r))
  BY DEF Rank
<1> HIDE DEF To
<1> QED BY <1>1, <1>2, <1>3, <1>4

\* Rows have a first and a last one.
LEMMA Ends ==
  ASSUME NEW rows, Rowed(rows), rows # {}
  PROVE  /\ \E r \in rows : \A s \in rows : s = r \/ Before(r, s)
         /\ \E r \in rows : \A s \in rows : s = r \/ Before(s, r)
<1>1. IsFiniteSet(rows)
  BY DEF Rowed
<1>2. \E r \in rows : \A s \in rows : s = r \/ Before(s, r)
  <2> DEFINE rank == [r \in rows |-> Rank(rows, r)]
  <2>1. \A r \in rows : rank[r] \in Int
    BY InOrder
  <2>2. PICK r \in rows : \A s \in rows : rank[s] <= rank[r]
    <3> HIDE DEF rank
    <3> QED BY <1>1, <2>1, Greatest
  <2>3. \A s \in rows : rank[s] = Rank(rows, s)
    OBVIOUS
  <2> HIDE DEF rank
  <2> QED BY <2>1, <2>2, <2>3, InOrder
<1>3. \E r \in rows : \A s \in rows : s = r \/ Before(r, s)
  <2> DEFINE left == [r \in rows |-> -Rank(rows, r)]
  <2>1. \A r \in rows : left[r] \in Int
    BY InOrder
  <2>2. PICK r \in rows : \A s \in rows : left[s] <= left[r]
    <3> HIDE DEF left
    <3> QED BY <1>1, <2>1, Greatest
  <2>3. \A s \in rows : Rank(rows, s) \in Nat /\ left[s] = -Rank(rows, s)
    BY InOrder
  <2> HIDE DEF left
  <2> QED BY <2>2, <2>3, InOrder
<1> QED BY <1>2, <1>3

\* A page is the first rows after its cursor, and its own last one is the next cursor.
After(cursor, r) == cursor = NoCursor \/ Before(cursor[1], r)

LEMMA PageIs ==
  ASSUME NEW rows, Rowed(rows), NEW cursor, NEW limit \in Nat \ {0}
  PROVE  LET page == Page(rows, cursor, limit)
             window == {r \in rows : After(cursor, r)}
         IN /\ page.rows \subseteq window
            /\ \/ page.next = NoCursor /\ page.rows = window
               \/ \E last \in page.rows :
                    /\ page.next = CursorOf(last)
                    /\ \A s \in page.rows : s = last \/ Before(s, last)
                    /\ \A r \in window : r \in page.rows \/ Before(last, r)
<1> DEFINE window == {r \in rows : After(cursor, r)}
           first == {r \in window : Rank(window, r) < limit}
           Last == CHOOSE r \in first : \A s \in first : s = r \/ Before(s, r)
<1>1. /\ Page(rows, cursor, limit).rows = first
      /\ Page(rows, cursor, limit).next = IF window = first THEN NoCursor ELSE CursorOf(Last)
  BY DEF Page, Rank, After
<1>2. Rowed(window)
  BY FS_Subset DEF Rowed
<1>3. Rowed(first)
  <2> HIDE DEF window
  <2> QED BY <1>2, FS_Subset DEF Rowed
<1> HIDE DEF window
<1>4. ASSUME window # first PROVE first # {}
  <2>1. PICK r \in window : \A s \in window : s = r \/ Before(r, s)
    <3>1. window # {}
      BY <1>4
    <3> QED BY <1>2, <3>1, Ends
  <2>2. {s \in window : Before(s, r)} = {}
    <3>1. \A s \in window : ~(Before(s, r))
      BY <1>2, <2>1 DEF Rowed, Before
    <3> QED BY <3>1
  <2>3. Rank(window, r) = 0
    BY <2>2, FS_EmptySet DEF Rank
  <2> QED BY <2>3
<1>5. ASSUME NEW r \in window, r \notin first, NEW s \in first PROVE Before(s, r)
  <2>1. Rank(window, s) < limit /\ ~(Rank(window, r) < limit)
    BY <1>5
  <2>2. Rank(window, r) \in Nat /\ Rank(window, s) \in Nat
    BY <1>2, InOrder
  <2>3. ~Before(r, s)
    <3>1. Before(r, s) => Rank(window, r) < Rank(window, s)
      BY <1>2, InOrder
    <3> QED BY <2>1, <2>2, <3>1
  <2> QED BY <1>2, <1>5, <2>3, InOrder
<1>6. CASE window = first
  BY <1>1, <1>6 DEF window
<1>7. CASE window # first
  <2>1. \E r \in first : \A s \in first : s = r \/ Before(s, r)
    <3> HIDE DEF first
    <3> QED BY <1>3, <1>4, <1>7, Ends
  <2>2. Last \in first /\ \A s \in first : s = Last \/ Before(s, Last)
    <3> HIDE DEF first
    <3> QED BY <2>1, Zenon
  <2>3. \A r \in window : r \in first \/ Before(Last, r)
    <3> HIDE DEF Last
    <3> QED BY <1>5, <2>2
  <2> HIDE DEF Last
  <2> QED BY <1>1, <1>7, <2>2, <2>3 DEF window
<1> QED BY <1>6, <1>7

\* The reader, page by page.
Unread == [served |-> {}, twice |-> {}, next |-> NoCursor, done |-> FALSE]

Booked(rows, arrived, k) == rows \cup UNION {arrived[j] : j \in 1 .. k}

Turned(b, page) ==
  IF b.done THEN b
  ELSE [served |-> b.served \cup page.rows,
        twice  |-> b.twice \cup (b.served \cap page.rows),
        next   |-> page.next, done |-> page.next = NoCursor]

TurnOf(rows, arrived, limit, f, k) ==
  IF k = 0 THEN Unread
  ELSE Turned(f[k - 1], Page(Booked(rows, arrived, k), f[k - 1].next, limit))

Turns(rows, arrived, limit, n, f) ==
  f = [k \in 0 .. n |-> TurnOf(rows, arrived, limit, f, k)]

\* Reading is a choice of such a function.
LEMMA ReadIs ==
  \A rows, arrived, limit, n :
    Read(rows, arrived, limit, n) = (CHOOSE f : Turns(rows, arrived, limit, n, f))[n]
BY Zenon DEF Read, Turns, TurnOf, Turned, Booked, Unread

\* There is one, however many pages are read.
LEMMA TurnsExist ==
  ASSUME NEW rows, NEW arrived, NEW limit, NEW n \in Nat
  PROVE  \E f : Turns(rows, arrived, limit, n, f)
<1> DEFINE Of(f, k) == TurnOf(rows, arrived, limit, f, k)
           Has(m) == \E f : f = [k \in 0 .. m |-> Of(f, k)]
<1>1. Has(0)
  <2> DEFINE f == [k \in 0 .. 0 |-> Unread]
  <2>1. \A k \in 0 .. 0 : k = 0
    OBVIOUS
  <2>2. f = [k \in 0 .. 0 |-> Of(f, k)]
    BY <2>1 DEF TurnOf
  <2> HIDE DEF f, Of
  <2> QED BY <2>2
<1>2. ASSUME NEW m \in Nat, Has(m) PROVE Has(m + 1)
  <2>1. PICK f : f = [k \in 0 .. m |-> Of(f, k)]
    BY <1>2
  <2> DEFINE g == [k \in 0 .. m + 1 |-> Of(f, k)]
  <2>2. \A k \in 0 .. m : k \in 0 .. m + 1 /\ g[k] = f[k]
    <3> HIDE DEF Of
    <3> QED BY <2>1
  <2>3. \A k \in 0 .. m + 1 : k # 0 => k - 1 \in 0 .. m
    OBVIOUS
  <2>4. \A k \in 0 .. m + 1 : Of(g, k) = Of(f, k)
    <3> HIDE DEF g
    <3> QED BY <2>2, <2>3, Zenon DEF TurnOf
  <2>5. g = [k \in 0 .. m + 1 |-> Of(g, k)]
    <3> HIDE DEF Of
    <3> QED BY <2>4
  <2> HIDE DEF g, Of
  <2> QED BY <2>5
<1>3. Has(n)
  <2> SUFFICES ASSUME ~Has(n) PROVE FALSE
    OBVIOUS
  <2> DEFINE Lacks == {m \in Nat : ~Has(m)}
  <2> HIDE DEF Has
  <2>1. PICK m \in Lacks : \A l \in Lacks : m <= l
    <3>1. Lacks \in SUBSET Nat /\ Lacks # {}
      OBVIOUS
    <3> HIDE DEF Lacks
    <3> QED BY <3>1, LeastNumber
  <2>2. m \in Nat /\ m # 0 /\ ~Has(m)
    BY <1>1
  <2>3. m - 1 \in Nat /\ (m - 1) + 1 = m /\ ~(m <= m - 1)
    BY <2>2
  <2>4. Has(m - 1)
    BY <2>1, <2>3
  <2> QED BY <1>2, <2>2, <2>3, <2>4
<1> QED BY <1>3 DEF Turns

\* A cursor is a time of whole milliseconds and an id.
Cursor(next) == next = NoCursor \/ \E at, id \in Nat : next = <<[at |-> at, id |-> id]>>

\* A row may have been passed over only for one of the same millisecond, of which a
\* cursor does not say where in it its page ended.
Passed(served, r) ==
  \E s \in served : s.at \div PerMs = r.at \div PerMs /\ s.at % PerMs # 0

\* Where a reader stands that began with rows: nothing was served twice, what was served
\* does not come after the cursor, and what was not does, or was passed over.
Reading(b, rows, known) ==
  /\ b.twice = {}
  /\ b.served \subseteq known
  /\ Cursor(b.next)
  /\ b.done \in BOOLEAN
  /\ b.next = NoCursor => b.done \/ b.served = {}
  /\ b.done => b.next = NoCursor
  /\ b.next # NoCursor => \A s \in b.served : ~Before(b.next[1], s)
  /\ \A r \in rows \ b.served : Passed(b.served, r) \/ (~b.done /\ After(b.next, r))

LEMMA Divided ==
  ASSUME NEW a \in Nat, NEW p \in Nat \ {0}
  PROVE  /\ a \div p \in Nat /\ a % p \in Nat /\ a % p < p
         /\ (a \div p) * p \in Nat /\ a = (a \div p) * p + (a % p)
<1>1. a \div p \in Nat
  OBVIOUS
<1>2. a % p \in Nat /\ a % p < p
  OBVIOUS
<1>3. a = (a \div p) * p + (a % p)
  OBVIOUS
<1> QED BY <1>1, <1>2, <1>3

\* The cursor of a page's last row comes no later than that row, and leaves out of what
\* comes after the row only what is of its millisecond.
LEMMA CursorIs ==
  ASSUME PerMs \in Nat \ {0}, NEW last, last.at \in Nat, last.id \in Nat
  PROVE  /\ Cursor(CursorOf(last)) /\ CursorOf(last) # NoCursor
         /\ CursorOf(last)[1].at \in Nat /\ CursorOf(last)[1].id = last.id
         /\ CursorOf(last)[1].at <= last.at
         /\ \A at \in Nat : /\ at <= last.at
                            /\ CursorOf(last)[1].at # last.at
                            /\ CursorOf(last)[1].at <= at
              => at \div PerMs = last.at \div PerMs /\ last.at % PerMs # 0
<1> DEFINE q == last.at \div PerMs
           rem == last.at % PerMs
           from == q * PerMs
<1>1. q \in Nat /\ rem \in Nat /\ rem < PerMs /\ from \in Nat /\ last.at = from + rem
  BY Divided
<1>2. CursorOf(last) = <<[at |-> from, id |-> last.id]>>
  BY DEF CursorOf
<1>3. ASSUME NEW at \in Nat, at <= last.at, from <= at PROVE at \div PerMs = q
  <2> DEFINE off == at - from
  <2> HIDE DEF q, rem
  <2>1. off \in Nat /\ off < PerMs /\ at = from + off
    <3> HIDE DEF from
    <3> QED BY <1>1, <1>3
  <2> HIDE DEF off
  <2>2. at = q * PerMs + off
    BY <2>1
  <2> QED BY <1>1, <2>1, <2>2
<1> HIDE DEF q, rem, from
<1>4. from # last.at => rem # 0
  BY <1>1
<1>5. Cursor(CursorOf(last)) /\ CursorOf(last) # NoCursor
  BY <1>1, <1>2 DEF Cursor, NoCursor
<1>6. CursorOf(last)[1].at = from /\ CursorOf(last)[1].id = last.id
  BY <1>2
<1>7. from <= last.at
  BY <1>1
<1>8. \A at \in Nat : at <= last.at /\ from # last.at /\ from <= at => at \div PerMs = q /\ rem # 0
  BY <1>3, <1>4
<1>9. q = last.at \div PerMs /\ rem = last.at % PerMs
  BY DEF q, rem
<1> QED BY <1>1, <1>5, <1>6, <1>7, <1>8, <1>9

LEMMA TurnKeeps ==
  ASSUME PerMs \in Nat \ {0}, NEW limit \in Nat \ {0}, NEW rows, NEW known, NEW more,
         Rowed(more), known \subseteq more, rows \subseteq more,
         NEW b, Reading(b, rows, known)
  PROVE  Reading(Turned(b, Page(more, b.next, limit)), rows, more)
<1> DEFINE page == Page(more, b.next, limit)
           window == {r \in more : After(b.next, r)}
           served == b.served \cup page.rows
           new == [served |-> served, twice |-> b.twice \cup (b.served \cap page.rows),
                   next |-> page.next, done |-> page.next = NoCursor]
<1>1. CASE b.done
  BY <1>1 DEF Turned, Reading
<1>2. CASE ~b.done
  <2>1. Turned(b, page) = new
    BY <1>2 DEF Turned
  <2>2. page.rows \subseteq window
    BY PageIs
  <2>3. \A s \in more : s.at \in Nat /\ s.id \in Nat
    BY DEF Rowed
  <2>4. b.served \cap page.rows = {}
    <3>1. CASE b.next = NoCursor
      BY <1>2, <3>1 DEF Reading
    <3>2. CASE b.next # NoCursor
      BY <2>2, <3>2 DEF Reading, After
    <3> QED BY <3>1, <3>2
  <2>5. new.twice = {} /\ new.served = served /\ new.next = page.next
        /\ new.done = (page.next = NoCursor)
    BY <2>4 DEF Reading
  <2>6. served \subseteq more
    BY <2>2 DEF Reading
  <2>7. CASE page.next = NoCursor /\ page.rows = window
    <3>1. \A r \in rows \ served : Passed(served, r)
      <4> SUFFICES ASSUME NEW r \in rows \ served PROVE Passed(served, r)
        OBVIOUS
      <4>1. r \notin window
        BY <2>7
      <4>2. ~After(b.next, r)
        BY <4>1
      <4>3. Passed(b.served, r)
        BY <4>2 DEF Reading
      <4> HIDE DEF page
      <4> QED BY <4>3 DEF Passed
    <3> HIDE DEF new, served, page
    <3>2. Reading(new, rows, more)
      BY <2>5, <2>6, <2>7, <3>1 DEF Reading, Cursor
    <3> QED BY <2>1, <3>2 DEF page
  <2>8. CASE \E last \in page.rows :
               /\ page.next = CursorOf(last)
               /\ \A s \in page.rows : s = last \/ Before(s, last)
               /\ \A r \in window : r \in page.rows \/ Before(last, r)
    <3>1. PICK last \in page.rows :
               /\ page.next = CursorOf(last)
               /\ \A s \in page.rows : s = last \/ Before(s, last)
               /\ \A r \in window : r \in page.rows \/ Before(last, r)
      BY <2>8
    <3> DEFINE cut == CursorOf(last)[1]
    <3>2. last \in more /\ last \in served /\ last.at \in Nat /\ last.id \in Nat
      BY <2>2, <2>3
    <3>3. /\ Cursor(page.next) /\ page.next # NoCursor
          /\ cut.at \in Nat /\ cut.id = last.id /\ cut.at <= last.at
          /\ \A at \in Nat : at <= last.at /\ cut.at # last.at /\ cut.at <= at
               => at \div PerMs = last.at \div PerMs /\ last.at % PerMs # 0
      BY <3>1, <3>2, CursorIs
    <3> HIDE DEF cut, page
    <3>4. \A s \in page.rows : ~Before(cut, s)
      BY <2>2, <2>3, <3>1, <3>2, <3>3 DEF Before
    <3>5. \A s \in b.served : ~Before(cut, s)
      <4> SUFFICES ASSUME NEW s \in b.served PROVE ~Before(cut, s)
        OBVIOUS
      <4>1. b.next # NoCursor
        BY <1>2 DEF Reading
      <4>2. PICK at \in Nat, id \in Nat : b.next = <<[at |-> at, id |-> id]>>
        BY <4>1 DEF Reading, Cursor
      <4>3. b.next[1].at = at /\ b.next[1].id = id
        BY <4>2
      <4>4. ~Before(b.next[1], s) /\ Before(b.next[1], last)
        BY <2>2, <4>1 DEF Reading, After
      <4>5. s.at \in Nat /\ s.id \in Nat
        BY <2>3 DEF Reading
      <4> QED BY <3>2, <3>3, <4>3, <4>4, <4>5 DEF Before
    <3>6. \A r \in rows \ served : Passed(served, r) \/ After(page.next, r)
      <4> SUFFICES ASSUME NEW r \in rows \ served, ~Passed(served, r)
                   PROVE  After(page.next, r)
        OBVIOUS
      <4>1. ~Passed(b.served, r)
        BY DEF Passed
      <4>2. After(b.next, r)
        BY <4>1 DEF Reading
      <4>3. r \in window /\ r \notin page.rows
        BY <4>2
      <4>4. Before(last, r) /\ r.at \in Nat /\ r.id \in Nat
        BY <2>3, <3>1, <4>3
      <4>5. r.at <= last.at
        BY <3>2, <4>4 DEF Before
      <4>6. ~(cut.at # last.at /\ cut.at <= r.at)
        BY <3>2, <3>3, <4>4, <4>5 DEF Passed
      <4>7. Before(cut, r)
        BY <3>2, <3>3, <4>4, <4>5, <4>6 DEF Before
      <4> QED BY <3>1, <4>7 DEF After, cut
    <3>7. \A s \in served : ~Before(page.next[1], s)
      BY <3>1, <3>4, <3>5 DEF cut
    <3> HIDE DEF new, served
    <3>8. Reading(new, rows, more)
      BY <2>5, <2>6, <3>3, <3>6, <3>7 DEF Reading
    <3> QED BY <2>1, <3>8 DEF page
  <2>9. \/ page.next = NoCursor /\ page.rows = window
        \/ \E last \in page.rows :
               /\ page.next = CursorOf(last)
               /\ \A s \in page.rows : s = last \/ Before(s, last)
               /\ \A r \in window : r \in page.rows \/ Before(last, r)
    BY PageIs
  <2> QED BY <2>7, <2>8, <2>9
<1> QED BY <1>1, <1>2

\* Whatever is booked meanwhile, in its turn or late, and however many pages are read:
\* no page serves a shipment again, and once the last page has been read every shipment
\* that was there at the start has been served, but for those created in the millisecond
\* of another that was (a cursor does not say where in a millisecond its page ended).
THEOREM NoPageTwice ==
  ASSUME PerMs \in Nat \ {0}, NEW limit \in Nat \ {0}, NEW n \in Nat, NEW rows, NEW arrived,
         Rowed(Booked(rows, arrived, n))
  PROVE  LET read == Read(rows, arrived, limit, n)
         IN /\ read.twice = {}
            /\ read.done => \A missed \in rows \ read.served :
                 \E s \in read.served : s.at \div PerMs = missed.at \div PerMs /\ s.at % PerMs # 0
<1> DEFINE f == CHOOSE f : Turns(rows, arrived, limit, n, f)
           Known(k) == Booked(rows, arrived, k)
<1>1. Turns(rows, arrived, limit, n, f)
  BY TurnsExist, Zenon
<1>2. Read(rows, arrived, limit, n) = f[n]
  BY ReadIs
<1> HIDE DEF f
<1>3. \A k \in 0 .. n : f[k] = TurnOf(rows, arrived, limit, f, k)
  BY <1>1 DEF Turns
<1> DEFINE Good(k) == Reading(f[k], rows, Known(k))
<1>4. Good(0)
  <2>1. f[0] = Unread
    BY <1>3 DEF TurnOf
  <2> QED BY <2>1 DEF Reading, Unread, Cursor, After, NoCursor
<1>5. ASSUME NEW k \in 0 .. n, k # 0, Good(k - 1) PROVE Good(k)
  <2>1. f[k] = Turned(f[k - 1], Page(Known(k), f[k - 1].next, limit))
    BY <1>3, <1>5 DEF TurnOf
  <2>2. Known(k - 1) \subseteq Known(k) /\ rows \subseteq Known(k)
    BY DEF Booked
  <2>3. Rowed(Known(k))
    <3>1. Known(k) \subseteq Known(n)
      BY DEF Booked
    <3> HIDE DEF Known
    <3> QED BY <3>1, FS_Subset DEF Rowed, Known
  <2> HIDE DEF Known
  <2> QED BY <1>5, <2>1, <2>2, <2>3, TurnKeeps
<1>6. Good(n)
  <2> SUFFICES ASSUME ~Good(n) PROVE FALSE
    OBVIOUS
  <2> DEFINE Bad == {k \in 0 .. n : ~Good(k)}
  <2> HIDE DEF Good
  <2>1. PICK k \in Bad : \A l \in Bad : k <= l
    <3>1. Bad \in SUBSET Nat /\ n \in Bad
      OBVIOUS
    <3> HIDE DEF Bad
    <3> QED BY <3>1, LeastNumber
  <2>2. k \in 0 .. n /\ k # 0 /\ ~Good(k)
    BY <1>4
  <2>3. k - 1 \in 0 .. n /\ ~(k <= k - 1)
    BY <2>2
  <2>4. Good(k - 1)
    BY <2>1, <2>3
  <2> QED BY <1>5, <2>2, <2>4
<1> QED BY <1>2, <1>6 DEF Reading, Passed
=============================================================================
