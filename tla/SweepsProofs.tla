---------------------------- MODULE SweepsProofs ----------------------------
(***************************************************************************)
(* Proofs about payments, about the two sweeps over a shipment and about   *)
(* the screening of parties, for any deliveries, references and amounts,   *)
(* any calls, policies, milestones and delays, any finite book of parties, *)
(* and any number of failures.                                             *)
(*                                                                         *)
(* OneEventPerPayment is not inductive: what keeps a reference from being  *)
(* credited twice is that a transaction which has inserted it excludes     *)
(* every other one until it ends (InsertSound).  LoneDeliverySettles rests *)
(* on LoneInv: what a delivery that overlaps no other has read still holds *)
(* but for the sweep, and its payment is among those it sums, which add up *)
(* to something (PaidPositive).                                            *)
(*                                                                         *)
(* Nor is ChaseLadder: LadderInv adds what a call has decided and not yet  *)
(* appended, and that attempts are made without a gap.  Nor is             *)
(* RepeatOnlyWhileBehind: RaiseInv adds that a code the board does not     *)
(* show was cleared after each time it was raised, as far as the projector *)
(* has been, and the same of each call and the board it read.              *)
(*                                                                         *)
(* Of screening, AgreementStays is the part of VerdictCatchesUp that is no *)
(* liveness: a verdict that agrees with the lists is not lost to anything  *)
(* but an answer that was on its way before (Agreed).                      *)
(***************************************************************************)
EXTENDS Screening, Payments, Watch, Sums, TLAPS

USE PaymentAssumption

\* A reference is inserted by one open transaction at most, and by none once it
\* is committed.
InsertSound ==
  /\ \A d \in Deliveries : inserted[d] => RefOf[d] \notin payments
  /\ \A d, e \in Deliveries :
       inserted[d] /\ inserted[e] /\ RefOf[d] = RefOf[e] => d = e
  /\ \A d \in Deliveries : pc[d] \in {"idle", "insert", "done"} => ~inserted[d]

PaymentInv == TypeOK /\ OneEventPerPayment /\ InsertSound

LEMMA SettleType ==
  ASSUME TypeOK, NEW d \in Deliveries
  PROVE  Settle(d) \in Status
<1> DEFINE paid == Paid(payments \cup IF inserted[d] THEN {RefOf[d]} ELSE {})
<1> HIDE DEF paid
<1>1. read[d] \in Status
  BY DEF TypeOK
<1>2. CASE paid >= Total
  BY <1>2 DEF Settle, Status, Unsettled, paid
<1>3. CASE ~(paid >= Total) /\ paid < Total /\ paid > 0
  BY <1>3 DEF Settle, Status, Unsettled, paid
<1>4. CASE ~(paid >= Total) /\ ~(paid < Total /\ paid > 0)
  BY <1>1, <1>4 DEF Settle, paid
<1> QED
  BY <1>2, <1>3, <1>4

LEMMA PaymentInit == Init => PaymentInv
<1> SUFFICES ASSUME Init PROVE PaymentInv
  OBVIOUS
<1>1. TypeOK
  <2>1. late \in BOOLEAN /\ inserted \in [Deliveries -> BOOLEAN]
        /\ alone \in [Deliveries -> BOOLEAN] /\ locked \in Deliveries \cup {Nobody}
    BY Zenon DEF Init
  <2>2. status \in Status /\ read \in [Deliveries -> Status]
        /\ new \in [Deliveries -> Status] /\ faults \in 0 .. MaxFaults
    BY DEF Init, Status, Unsettled
  <2>3. payments \subseteq Refs /\ received \in [Refs -> Nat]
        /\ pc \in [Deliveries -> {"idle", "insert", "sum", "write", "commit", "done"}]
    BY DEF Init
  <2> QED
    BY <2>1, <2>2, <2>3 DEF TypeOK
<1>2. OneEventPerPayment
  BY DEF Init, OneEventPerPayment
<1>3. InsertSound
  BY DEF Init, InsertSound
<1> QED
  BY <1>1, <1>2, <1>3 DEF PaymentInv

LEMMA PaymentStep == PaymentInv /\ [Next]_vars => PaymentInv'
<1> SUFFICES ASSUME PaymentInv, [Next]_vars PROVE PaymentInv'
  OBVIOUS
<1> USE DEF PaymentInv, Move
<1>1. ASSUME NEW d \in Deliveries, Deliver(d) PROVE PaymentInv'
  <2>1. alone' \in [Deliveries -> BOOLEAN]
    BY <1>1 DEF Deliver, TypeOK, UnderWay
  <2>2. TypeOK'
    BY <1>1, <2>1 DEF Deliver, TypeOK
  <2>3. UNCHANGED <<payments, received, inserted>>
    BY <1>1, Zenon DEF Deliver
  <2>4. \A e \in Deliveries : e # d => pc'[e] = pc[e]
    <3>1. pc' = [pc EXCEPT ![d] = "insert"]
      BY <1>1, Zenon DEF Deliver
    <3> QED
      BY <3>1 DEF TypeOK
  <2>5. pc[d] = "idle"
    BY <1>1, Zenon DEF Deliver
  <2>6. InsertSound'
    BY <2>3, <2>4, <2>5, Zenon DEF InsertSound
  <2>7. OneEventPerPayment'
    BY <2>3, Zenon DEF OneEventPerPayment
  <2> QED
    BY <2>2, <2>6, <2>7
<1>2. ASSUME NEW d \in Deliveries, Insert(d) PROVE PaymentInv'
  <2>1. TypeOK'
    BY <1>2 DEF Insert, TypeOK
  <2>2. OneEventPerPayment'
    BY <1>2 DEF Insert, OneEventPerPayment
  <2>3. InsertSound'
    BY <1>2 DEF Insert, TypeOK, InsertSound
  <2> QED
    BY <2>1, <2>2, <2>3
<1>3. ASSUME NEW d \in Deliveries, Sum(d) PROVE PaymentInv'
  <2>1. TypeOK'
    BY <1>3, SettleType DEF Sum, TypeOK
  <2> QED
    BY <1>3, <2>1 DEF Sum, TypeOK, OneEventPerPayment, InsertSound
<1>4. ASSUME NEW d \in Deliveries, Write(d) PROVE PaymentInv'
  BY <1>4 DEF Write, TypeOK, OneEventPerPayment, InsertSound
<1>5. ASSUME NEW d \in Deliveries, Commit(d) PROVE PaymentInv'
  <2>1. Emit(d) \in Nat
    BY DEF Emit
  <2>2. TypeOK'
    BY <1>5, <2>1 DEF Commit, TypeOK
  <2>3. OneEventPerPayment'
    BY <1>5 DEF Commit, TypeOK, OneEventPerPayment, InsertSound, Emit
  <2>4. InsertSound'
    BY <1>5 DEF Commit, TypeOK, InsertSound
  <2> QED
    BY <2>2, <2>3, <2>4
<1>6. ASSUME NEW d \in Deliveries, Fail(d) PROVE PaymentInv'
  <2>1. TypeOK'
    BY <1>6 DEF Fail, TypeOK
  <2>2. UNCHANGED <<payments, received>>
    BY <1>6 DEF Fail
  <2>3. InsertSound'
    BY <1>6, <2>2 DEF Fail, TypeOK, InsertSound
  <2> QED
    BY <2>1, <2>2, <2>3 DEF OneEventPerPayment
<1>7. CASE MarkOverdue
  BY <1>7 DEF MarkOverdue, TypeOK, OneEventPerPayment, InsertSound, Status, Unsettled
<1>8. CASE FallDue
  BY <1>8 DEF FallDue, TypeOK, OneEventPerPayment, InsertSound
<1>9. CASE UNCHANGED vars
  BY <1>9 DEF vars, TypeOK, OneEventPerPayment, InsertSound
<1> QED
  BY <1>1, <1>2, <1>3, <1>4, <1>5, <1>6, <1>7, <1>8, <1>9 DEF Next, Step

LEMMA PaymentInvariant == Spec => []PaymentInv
BY PaymentInit, PaymentStep, PTL DEF Spec

\* Type correctness, whatever the constants.
THEOREM PaymentTypeCorrect == Spec => []TypeOK
<1>1. PaymentInv => TypeOK
  BY DEF PaymentInv
<1> QED
  BY <1>1, PaymentInvariant, PTL

\* A reference is credited once and announced once, for any number of
\* concurrent deliveries, redeliveries and failures.
THEOREM CreditedOnce == Spec => []OneEventPerPayment
<1>1. PaymentInv => OneEventPerPayment
  BY DEF PaymentInv
<1> QED
  BY <1>1, PaymentInvariant, PTL

-----------------------------------------------------------------------------
(* A delivery that overlaps no other.                                      *)

LEMMA PaidIs == \A refs : Paid(refs) = SumFunctionOnSet(AmountOf, refs)
BY Zenon DEF Paid, MapThenSumSet, MapThenFoldSet, SumFunctionOnSet, FoldFunctionOnSet

\* Payments that are not none add up to something.
LEMMA PaidPositive ==
  ASSUME NEW refs \in SUBSET Refs, IsFiniteSet(refs), refs # {}
  PROVE  Paid(refs) \in Nat /\ Paid(refs) > 0
<1>1. \A ref \in refs : AmountOf[ref] \in Nat \ {0}
  OBVIOUS
<1>2. /\ SumFunctionOnSet(AmountOf, refs) \in Nat
      /\ \A ref \in refs : AmountOf[ref] <= SumFunctionOnSet(AmountOf, refs)
  BY <1>1, SumNat
<1> QED BY <1>1, <1>2, PaidIs

Mine(d) == IF inserted[d] THEN {RefOf[d]} ELSE {}

\* What the running total calls for.
CalledFor(refs) == IF Paid(refs) >= Total THEN {"PAID"} ELSE {"PART_PAID", "OVERDUE"}

\* A lone delivery that waits has the row to itself, but for the sweep; its payment is
\* among those it sums; and the status it computed is the one they call for, and is
\* the one it read if it does not write.
LoneSound(d) ==
  /\ \A e \in Deliveries \ {d} : ~UnderWay(e)
  /\ locked \in {d, Nobody}
  /\ pc[d] \in {"sum", "write", "commit"} => RefOf[d] \in payments \cup Mine(d)
  /\ pc[d] \in {"write", "commit"} => new[d] \in CalledFor(payments \cup Mine(d))
  /\ pc[d] = "commit" /\ locked # d => new[d] = read[d]
  /\ status = read[d] \/ (read[d] \in Swept /\ status = "OVERDUE")

LoneInv ==
  /\ PaymentInv
  /\ IsFiniteSet(payments)
  /\ \A d \in Deliveries : locked = d => pc[d] = "commit"
  /\ \A d \in Deliveries : UnderWay(d) /\ alone[d] => LoneSound(d)

\* The total that a delivery sees settles its invoice.
LEMMA SettleCalledFor ==
  ASSUME LoneInv, NEW d \in Deliveries, RefOf[d] \in payments \cup Mine(d)
  PROVE  Settle(d) \in CalledFor(payments \cup Mine(d))
<1> PICK refs : refs = payments \cup Mine(d)
  OBVIOUS
<1>1. refs \in SUBSET Refs /\ IsFiniteSet(refs) /\ refs # {}
  <2>1. payments \in SUBSET Refs /\ RefOf[d] \in Refs
    BY DEF LoneInv, PaymentInv, TypeOK
  <2>2. IsFiniteSet(payments \cup {RefOf[d]}) /\ IsFiniteSet(payments)
    BY FS_AddElement DEF LoneInv
  <2> QED BY <2>1, <2>2 DEF Mine
<1>2. Paid(refs) \in Nat /\ Paid(refs) > 0
  BY <1>1, PaidPositive
<1>3. Settle(d) = CASE Paid(refs) >= Total -> "PAID"
                    [] Paid(refs) < Total /\ Paid(refs) > 0 -> IF late THEN "OVERDUE" ELSE "PART_PAID"
                    [] OTHER -> read[d]
  BY DEF Settle, Mine
<1>4. CASE Paid(refs) >= Total
  <2>1. ~(Paid(refs) < Total)
    BY <1>2, <1>4
  <2> QED BY <1>3, <1>4, <2>1 DEF CalledFor
<1>5. CASE ~(Paid(refs) >= Total)
  <2>1. Paid(refs) < Total
    BY <1>2, <1>5
  <2> QED BY <1>2, <1>3, <1>5, <2>1 DEF CalledFor
<1> QED BY <1>4, <1>5

\* What others see of a delivery's step.
LEMMA LoneOthers ==
  ASSUME LoneInv, NEW d \in Deliveries, UnderWay(d),
         UNCHANGED alone, \A e \in Deliveries \ {d} : pc'[e] = pc[e]
  PROVE  \A e \in Deliveries \ {d} : ~(UnderWay(e)' /\ alone'[e])
BY DEF LoneInv, LoneSound, UnderWay

LEMMA LoneStep ==
  ASSUME LoneInv, [Next]_vars
  PROVE  LoneInv'
<1>p. PaymentInv' /\ TypeOK
  BY PaymentStep DEF LoneInv, PaymentInv
<1>1. ASSUME NEW d \in Deliveries, Deliver(d) PROVE LoneInv'
  <2> PICK others : others = {e \in Deliveries \ {d} : UnderWay(e)}
    OBVIOUS
  <2>1. /\ pc[d] = "idle" /\ pc' = [pc EXCEPT ![d] = "insert"]
        /\ read' = [read EXCEPT ![d] = status]
        /\ UNCHANGED <<status, payments, locked, inserted, new>>
    BY <1>1, Zenon DEF Deliver, Move
  <2>2. alone' = [e \in Deliveries |-> CASE e = d -> others = {}
                                         [] e \in others -> FALSE
                                         [] OTHER -> alone[e]]
    BY <1>1, Zenon DEF Deliver
  <2>3. alone'[d] => others = {}
    BY <2>2
  <2>4. \A e \in others : ~alone'[e]
    BY <2>2
  <2>5. /\ pc'[d] = "insert" /\ read'[d] = status
        /\ \A e \in Deliveries \ {d} : pc'[e] = pc[e] /\ read'[e] = read[e]
    BY <1>p, <2>1 DEF TypeOK
  <2>6. \A e \in Deliveries : UnderWay(e)' /\ alone'[e] => e = d
    BY <2>4, <2>5 DEF UnderWay
  <2>7. alone'[d] => LoneSound(d)'
    <3>1. locked \in Deliveries \cup {Nobody}
      BY <1>p DEF TypeOK
    <3>2. locked # d
      BY <2>1 DEF LoneInv
    <3>3. others = {} => locked = Nobody
      BY <3>1, <3>2 DEF LoneInv, UnderWay
    <3> QED BY <2>1, <2>3, <2>5, <3>3 DEF LoneSound, UnderWay
  <2> QED BY <1>p, <2>1, <2>5, <2>6, <2>7 DEF LoneInv
<1>2. ASSUME NEW d \in Deliveries, Insert(d) PROVE LoneInv'
  <2>1. /\ pc[d] = "insert" /\ pc' = [pc EXCEPT ![d] = "sum"]
        /\ inserted' = [inserted EXCEPT ![d] = RefOf[d] \notin payments]
        /\ UNCHANGED <<status, payments, locked, read, new, alone>>
    BY <1>2 DEF Insert, Move
  <2>2. /\ pc'[d] = "sum" /\ inserted'[d] = (RefOf[d] \notin payments)
        /\ \A e \in Deliveries \ {d} : pc'[e] = pc[e]
    BY <1>p, <2>1 DEF TypeOK
  <2>3. \A e \in Deliveries \ {d} : ~(UnderWay(e)' /\ alone'[e])
    BY <2>1, <2>2, LoneOthers DEF UnderWay
  <2>4. LoneSound(d) => LoneSound(d)'
    BY <2>1, <2>2 DEF LoneSound, UnderWay, Mine
  <2> QED BY <1>p, <2>1, <2>2, <2>3, <2>4 DEF LoneInv, UnderWay
<1>3. ASSUME NEW d \in Deliveries, Sum(d) PROVE LoneInv'
  <2>1. /\ pc[d] = "sum" /\ new' = [new EXCEPT ![d] = Settle(d)]
        /\ pc' = [pc EXCEPT ![d] = IF Settle(d) = read[d] THEN "commit" ELSE "write"]
        /\ UNCHANGED <<status, payments, locked, read, inserted, alone>>
    BY <1>3 DEF Sum, Move
  <2>2. /\ new'[d] = Settle(d) /\ pc'[d] \in {"commit", "write"}
        /\ pc'[d] = "commit" => Settle(d) = read[d]
        /\ \A e \in Deliveries \ {d} : pc'[e] = pc[e]
    BY <1>p, <2>1 DEF TypeOK
  <2>3. \A e \in Deliveries \ {d} : ~(UnderWay(e)' /\ alone'[e])
    BY <2>1, <2>2, LoneOthers DEF UnderWay
  <2>4. LoneSound(d) => LoneSound(d)'
    <3> SUFFICES ASSUME LoneSound(d) PROVE LoneSound(d)'
      OBVIOUS
    <3>1. RefOf[d] \in payments \cup Mine(d)
      BY <2>1 DEF LoneSound
    <3>2. Settle(d) \in CalledFor(payments \cup Mine(d))
      BY <3>1, SettleCalledFor
    <3>3. Mine(d)' = Mine(d)
      BY <2>1 DEF Mine
    <3>4. CalledFor(payments \cup Mine(d))' = CalledFor(payments \cup Mine(d))
      BY <2>1, <3>3 DEF CalledFor
    <3> QED BY <2>1, <2>2, <3>1, <3>2, <3>3, <3>4 DEF LoneSound, UnderWay
  <2> QED BY <1>p, <2>1, <2>2, <2>3, <2>4 DEF LoneInv, UnderWay
<1>4. ASSUME NEW d \in Deliveries, Write(d) PROVE LoneInv'
  <2>1. /\ pc[d] = "write" /\ locked = Nobody /\ locked' = d
        /\ pc' = [pc EXCEPT ![d] = "commit"]
        /\ UNCHANGED <<status, payments, read, inserted, new, alone>>
    BY <1>4 DEF Write, Move
  <2>2. pc'[d] = "commit" /\ \A e \in Deliveries \ {d} : pc'[e] = pc[e]
    BY <1>p, <2>1 DEF TypeOK
  <2>3. \A e \in Deliveries \ {d} : ~(UnderWay(e)' /\ alone'[e])
    BY <2>1, <2>2, LoneOthers DEF UnderWay
  <2>4. LoneSound(d) => LoneSound(d)'
    <3>1. CalledFor(payments \cup Mine(d))' = CalledFor(payments \cup Mine(d))
      BY <2>1 DEF CalledFor, Mine
    <3>2. Mine(d)' = Mine(d)
      BY <2>1 DEF Mine
    <3> QED BY <2>1, <2>2, <3>1, <3>2 DEF LoneSound, UnderWay
  <2> QED BY <1>p, <2>1, <2>2, <2>3, <2>4 DEF LoneInv, UnderWay
<1>5. ASSUME NEW d \in Deliveries, Commit(d) \/ Fail(d) PROVE LoneInv'
  <2>1. /\ UnderWay(d) /\ pc'[d] \in {"idle", "done"} /\ UNCHANGED alone
        /\ \A e \in Deliveries \ {d} : pc'[e] = pc[e]
        /\ locked' = IF locked = d THEN Nobody ELSE locked
    BY <1>5, <1>p DEF Commit, Fail, Move, UnderWay, TypeOK
  <2>2. \A e \in Deliveries \ {d} : ~(UnderWay(e)' /\ alone'[e])
    BY <2>1, LoneOthers
  <2>3. IsFiniteSet(payments')
    <3>1. payments' = payments \/ payments' = payments \cup {RefOf[d]}
      BY <1>5 DEF Commit, Fail
    <3> QED BY <3>1, FS_AddElement DEF LoneInv
  <2>4. \A e \in Deliveries : locked' = e => pc'[e] = "commit"
    BY <2>1 DEF LoneInv
  <2> QED BY <1>p, <2>1, <2>2, <2>3, <2>4 DEF LoneInv, UnderWay
<1>6. CASE MarkOverdue \/ FallDue \/ UNCHANGED vars
  <2>1. /\ UNCHANGED <<payments, locked, pc, read, inserted, new, alone>>
        /\ status' = status \/ (status \in Swept /\ status' = "OVERDUE")
    BY <1>6 DEF MarkOverdue, FallDue, vars
  <2>2. ASSUME NEW d \in Deliveries, LoneSound(d) PROVE LoneSound(d)'
    <3>1. CalledFor(payments \cup Mine(d))' = CalledFor(payments \cup Mine(d))
      BY <2>1 DEF CalledFor, Mine
    <3>2. Mine(d)' = Mine(d)
      BY <2>1 DEF Mine
    <3>3. "OVERDUE" \notin Swept
      BY DEF Swept
    <3> QED BY <2>1, <2>2, <3>1, <3>2, <3>3 DEF LoneSound, UnderWay
  <2> QED BY <1>p, <2>1, <2>2 DEF LoneInv, UnderWay
<1> QED BY <1>1, <1>2, <1>3, <1>4, <1>5, <1>6 DEF Next, Step

\* A delivery that overlaps no other leaves the invoice with the status that the payments
\* call for, whatever earlier deliveries, failures and the sweep have left of it.
THEOREM LoneDeliveryIsRight == Spec => LoneDeliverySettles
<1>1. Init => LoneInv
  <2>1. Init => PaymentInv
    BY PaymentInit
  <2>2. Init => IsFiniteSet(payments)
    BY FS_EmptySet DEF Init
  <2> QED BY <2>1, <2>2 DEF Init, LoneInv, UnderWay
<1>2. LoneInv /\ [Next]_vars => LoneInv'
  BY LoneStep
<1>3. LoneInv /\ [Next]_vars
        => [\A d \in Deliveries :
              Commit(d) /\ alone[d] =>
                status' \in IF Paid(payments') >= Total THEN {"PAID"}
                            ELSE {"PART_PAID", "OVERDUE"}]_vars
  <2> SUFFICES ASSUME LoneInv, NEW d \in Deliveries, Commit(d), alone[d]
               PROVE  status' \in IF Paid(payments') >= Total THEN {"PAID"}
                                  ELSE {"PART_PAID", "OVERDUE"}
    OBVIOUS
  <2>1. /\ pc[d] = "commit" /\ status' = IF locked = d THEN new[d] ELSE status
        /\ payments' = payments \cup Mine(d)
    BY DEF Commit, Move, Mine
  <2>2. LoneSound(d)
    BY <2>1 DEF LoneInv, UnderWay
  <2>3. new[d] \in CalledFor(payments')
    BY <2>1, <2>2 DEF LoneSound
  <2>4. locked # d => new[d] = status \/ (new[d] \in Swept /\ status = "OVERDUE")
    BY <2>1, <2>2 DEF LoneSound
  <2>5. "PAID" \notin Swept
    BY DEF Swept
  <2> QED BY <2>1, <2>3, <2>4, <2>5 DEF CalledFor
<1> QED BY <1>1, <1>2, <1>3, PTL DEF LoneDeliverySettles, Spec

-----------------------------------------------------------------------------
(* The sweeps over a shipment: what the variables are.                     *)

USE WatchAssumption
HIDE PaymentAssumption

Types == Milestones \cup {Requested, "shipment.exception_raised"}

Row ==
  [type : Types, arg : Codes \cup {None}, attempt : 0 .. Len(policy.ladder),
   at : 0 .. MaxTime, saw : Nat]

SweepRow(n) ==
  [kind : {"idle", "raise", "chase"}, codes : SUBSET Codes,
   attempt : 0 .. Len(policy.ladder), saw : 0 .. n]

LEMMA NewEntry ==
  ASSUME WatchTypeOK, NEW type \in Types, NEW arg \in Codes \cup {None},
         NEW attempt \in 0 .. Len(policy.ladder), NEW at \in 0 .. MaxTime, NEW saw \in Nat
  PROVE  Entry(type, arg, attempt, at, saw) \in Row
BY DEF Entry, Row

LEMMA BoardType ==
  ASSUME NEW b \in [status : Statuses, open : SUBSET Codes],
         NEW e, e.arg \in Codes \cup {None}
  PROVE  ProjectEvent(b, e) \in [status : Statuses, open : SUBSET Codes]
<1>1. StatusAfter(e) \in Statuses \cup {None}
  BY DEF StatusAfter, Statuses
<1>2. Raises(e) \in Codes \cup {None}
  BY DEF Raises, Codes
<1> QED BY <1>1, <1>2 DEF ProjectEvent, Open

LEMMA CodesFinite == \A S \in SUBSET Codes : IsFiniteSet(S)
<1>1. IsFiniteSet(Codes)
  <2>1. Codes = {"BOOKING_ROLLED"} \cup {"CUSTOMS_STOP"} \cup {"CUSTOMS_QUERY"}
                \cup {"CONGESTION_DELAY"} \cup {"COMPLIANCE_HOLD"}
    BY DEF Codes
  <2> QED BY <2>1, FS_Singleton, FS_Union
<1> QED BY <1>1, FS_Subset

LEMMA AttemptsFinite ==
  ASSUME WatchTypeOK
  PROVE  /\ IsFiniteSet(Chases) /\ Attempts = Cardinality(Chases) /\ Attempts \in Nat
         /\ Chases \subseteq DOMAIN history /\ DOMAIN history = 1 .. Len(history)
         /\ Len(history) \in Nat
<1>1. DOMAIN history = 1 .. Len(history) /\ Len(history) \in Nat
  BY DEF WatchTypeOK
<1>2. IsFiniteSet(1 .. Len(history))
  <2>1. 1 \in Int /\ Len(history) \in Int
    BY <1>1
  <2> QED BY ONLY <2>1, FS_Interval
<1>3. Chases \subseteq DOMAIN history
  BY DEF Chases
<1>4. IsFiniteSet(Chases)
  BY <1>1, <1>2, <1>3, FS_Subset
<1> QED BY <1>1, <1>3, <1>4, FS_CardinalityType DEF Attempts, Chases

LEMMA PolicySound ==
  ASSUME WatchTypeOK
  PROVE  policy.ladder \in Seq(Nat \ {0}) /\ Len(policy.ladder) \in Nat
BY DEF WatchTypeOK, IsPolicy

\* What a step appends to the log, with what was there.
LEMMA Longer ==
  ASSUME NEW S, NEW h \in Seq(S), NEW more \in Seq(S), NEW longer, longer = h \o more
  PROVE  /\ longer \in Seq(S) /\ Len(longer) = Len(h) + Len(more)
         /\ Len(h) \in Nat /\ Len(more) \in Nat
         /\ DOMAIN h = 1 .. Len(h) /\ DOMAIN longer = 1 .. Len(longer)
         /\ \A i \in DOMAIN h : longer[i] = h[i]
         /\ \A i \in DOMAIN longer : i > Len(h) => i - Len(h) \in DOMAIN more /\ longer[i] = more[i - Len(h)]
OBVIOUS

\* A step that appends entries, and may end a call, keeps the types.
LEMMA GrownType ==
  ASSUME WatchTypeOK, history' \in Seq(Row), Len(history) <= Len(history'),
         UNCHANGED <<policy, now, shown, board, confirmed, sweepFaults>>,
         sweep' = sweep \/ \E c \in SweepCalls : sweep' = [sweep EXCEPT ![c] = Idle]
  PROVE  WatchTypeOK'
<1>1. /\ sweep \in [SweepCalls -> SweepRow(Len(history))]
      /\ Len(history') \in Nat /\ Len(history) \in Nat /\ shown \in 0 .. Len(history)
  BY DEF WatchTypeOK, SweepRow
<1>2. Idle \in SweepRow(Len(history))
  BY <1>1, PolicySound DEF Idle, SweepRow
<1>3. sweep' \in [SweepCalls -> SweepRow(Len(history))]
  BY <1>1, <1>2
<1>4. \A r \in SweepRow(Len(history)) : r \in SweepRow(Len(history'))
  BY <1>1 DEF SweepRow
<1>5. sweep' \in [SweepCalls -> SweepRow(Len(history'))] /\ shown' \in 0 .. Len(history')
  BY <1>1, <1>3, <1>4
<1> QED BY <1>5 DEF WatchTypeOK, Row, SweepRow, Types

\* A call that decides, appends nothing or fails keeps the types.
LEMMA SweepType ==
  ASSUME WatchTypeOK, NEW c \in SweepCalls, NEW r \in SweepRow(Len(history)),
         sweep' = [sweep EXCEPT ![c] = r], sweepFaults' \in 0 .. MaxSweepFaults,
         UNCHANGED <<policy, now, history, shown, board, confirmed>>
  PROVE  WatchTypeOK'
BY DEF WatchTypeOK, SweepRow

LEMMA IdleType ==
  ASSUME WatchTypeOK
  PROVE  Idle \in SweepRow(Len(history))
BY PolicySound DEF Idle, SweepRow, WatchTypeOK

LEMMA BreachCodes == Breaches \subseteq {"CONGESTION_DELAY", "CUSTOMS_QUERY"} /\ Breaches \subseteq Codes
<1>1. Breaches \subseteq {"CONGESTION_DELAY", "CUSTOMS_QUERY"}
  BY DEF Breaches, DetectBreaches, Overdue
<1> QED BY <1>1 DEF Codes

LEMMA WatchTypeStep ==
  ASSUME WatchTypeOK, [WatchNext]_watchVars
  PROVE  WatchTypeOK'
<1>0. /\ MaxTime \in Nat /\ MaxSweepFaults \in Nat /\ now \in 0 .. MaxTime
      /\ sweepFaults \in 0 .. MaxSweepFaults
  BY DEF WatchTypeOK
<1>a. Len(policy.ladder) \in Nat /\ Len(history) \in Nat /\ shown \in 0 .. Len(history)
  BY PolicySound DEF WatchTypeOK
<1>1. CASE Tick
  BY <1>0, <1>1 DEF Tick, WatchTypeOK
<1>2. CASE Report
  <2>1. PICK t \in Milestones, at \in 0 .. now : history' = Append(history, Entry(t, None, 0, at, 0))
    BY <1>2 DEF Report
  <2>2. at \in 0 .. MaxTime
    BY <1>0
  <2>3. Entry(t, None, 0, at, 0) \in Row
    <3>1. t \in Types /\ 0 \in 0 .. Len(policy.ladder) /\ 0 \in Nat
      BY <1>a DEF Types
    <3> QED BY <2>2, <3>1, NewEntry
  <2>4. history' \in Seq(Row) /\ Len(history') = Len(history) + 1
    BY <1>a, <2>1, <2>3 DEF WatchTypeOK, Row, Types
  <2> QED BY <1>2, <1>a, <2>4, GrownType DEF Report
<1>3. CASE Project
  <2>1. /\ shown + 1 \in 1 .. Len(history) /\ shown' = shown + 1
        /\ board' = ProjectEvent(board, history[shown + 1])
        /\ UNCHANGED <<policy, now, history, confirmed, sweep, sweepFaults>>
    BY <1>a, <1>3 DEF Project
  <2>2. history[shown + 1] \in Row
    <3>1. history \in Seq(Row)
      BY DEF WatchTypeOK, Row, Types
    <3> QED BY <2>1, <3>1
  <2>4. history[shown + 1].arg \in Codes \cup {None} /\ shown' \in 0 .. Len(history)
    BY <1>a, <2>1, <2>2 DEF Row
  <2>3. board' \in [status : Statuses, open : SUBSET Codes]
    BY <2>1, <2>4, BoardType DEF WatchTypeOK
  <2> QED BY <2>1, <2>3, <2>4 DEF WatchTypeOK
<1>4. ASSUME NEW c \in SlaCalls, SlaRead(c) PROVE WatchTypeOK'
  <2> DEFINE r == [kind |-> "raise", codes |-> Breaches, attempt |-> 0, saw |-> shown]
  <2>1. r \in SweepRow(Len(history))
    BY <1>a, BreachCodes DEF SweepRow
  <2>2. sweep' = [sweep EXCEPT ![c] = r]
    BY <1>4 DEF SlaRead
  <2> HIDE DEF r
  <2> QED BY <1>0, <1>4, <2>1, <2>2, SweepType DEF SlaRead, SweepCalls
<1>5. ASSUME NEW c \in SlaCalls, SlaAppend(c) PROVE WatchTypeOK'
  <2>1. sweep[c] \in SweepRow(Len(history))
    BY DEF WatchTypeOK, SweepRow, SweepCalls
  <2>2. PICK order \in [1 .. Cardinality(sweep[c].codes) -> sweep[c].codes] :
          history' = history \o [i \in DOMAIN order |->
            Entry("shipment.exception_raised", order[i], 0, 0, sweep[c].saw)]
    BY <1>5, Zenon DEF SlaAppend
  <2> DEFINE more == [i \in DOMAIN order |->
                       Entry("shipment.exception_raised", order[i], 0, 0, sweep[c].saw)]
  <2>3. more \in Seq(Row)
    <3>1. Cardinality(sweep[c].codes) \in Nat
      BY <2>1, FS_CardinalityType, CodesFinite DEF SweepRow
    <3>2. \A i \in DOMAIN order :
            Entry("shipment.exception_raised", order[i], 0, 0, sweep[c].saw) \in Row
      <4> SUFFICES ASSUME NEW i \in DOMAIN order
                   PROVE  Entry("shipment.exception_raised", order[i], 0, 0, sweep[c].saw) \in Row
        OBVIOUS
      <4>1. order[i] \in Codes \cup {None} /\ sweep[c].saw \in Nat
        BY <1>a, <2>1 DEF SweepRow
      <4>2. 0 \in 0 .. Len(policy.ladder) /\ 0 \in 0 .. MaxTime
        BY <1>0, <1>a
      <4> QED BY <4>1, <4>2, NewEntry DEF Types
    <3> QED BY <3>1, <3>2
  <2> HIDE DEF more
  <2>4. history' \in Seq(Row) /\ Len(history) <= Len(history')
    <3>1. history' = history \o more /\ history \in Seq(Row)
      BY <2>2 DEF more, WatchTypeOK, Row, Types
    <3> QED BY <2>3, <3>1, Longer
  <2> QED BY <1>5, <2>4, GrownType DEF SlaAppend, SweepCalls
<1>6. ASSUME NEW c \in LadderCalls, LadderRead(c) PROVE WatchTypeOK'
  <2>1. PICK r \in SweepRow(Len(history)) : sweep' = [sweep EXCEPT ![c] = r]
    <3>1. CASE ChaseDue /\ sweep' = [sweep EXCEPT ![c] =
                       [kind |-> "chase", codes |-> {}, attempt |-> Attempts + 1, saw |-> shown]]
      <4>1. Attempts + 1 \in 0 .. Len(policy.ladder)
        BY <1>a, <3>1, AttemptsFinite DEF ChaseDue
      <4> QED BY <1>a, <3>1, <4>1 DEF SweepRow
    <3>2. CASE sweep' = [sweep EXCEPT ![c] =
                       [kind |-> "raise", codes |-> {"BOOKING_ROLLED"}, attempt |-> 0, saw |-> shown]]
      <4>1. [kind |-> "raise", codes |-> {"BOOKING_ROLLED"}, attempt |-> 0, saw |-> shown]
              \in SweepRow(Len(history))
        BY <1>a DEF SweepRow, Codes
      <4> QED BY <3>2, <4>1
    <3> QED BY <1>6, <3>1, <3>2 DEF LadderRead
  <2> QED BY <1>0, <1>6, <2>1, SweepType DEF LadderRead, SweepCalls
<1>7. ASSUME NEW c \in LadderCalls, ChaseAppend(c) PROVE WatchTypeOK'
  <2>1. sweep[c] \in SweepRow(Len(history)) /\ history \in Seq(Row)
    BY DEF WatchTypeOK, SweepRow, SweepCalls, Row, Types
  <2>2. Entry(Requested, None, sweep[c].attempt, now, sweep[c].saw) \in Row
    <3>1. sweep[c].attempt \in 0 .. Len(policy.ladder) /\ sweep[c].saw \in Nat
      BY <1>a, <2>1 DEF SweepRow
    <3>2. Requested \in Types
      BY DEF Types
    <3> QED BY <1>0, <3>1, <3>2, NewEntry
  <2>3. history' \in Seq(Row) /\ Len(history) <= Len(history')
    BY <1>7, <1>a, <2>1, <2>2 DEF ChaseAppend
  <2> QED BY <1>7, <2>3, GrownType DEF ChaseAppend, SweepCalls
<1>8. ASSUME NEW c \in LadderCalls, EscalationAppend(c) PROVE WatchTypeOK'
  <2>1. sweep[c] \in SweepRow(Len(history)) /\ history \in Seq(Row)
    BY DEF WatchTypeOK, SweepRow, SweepCalls, Row, Types
  <2>2. 0 \in 0 .. Len(policy.ladder) /\ 0 \in 0 .. MaxTime /\ sweep[c].saw \in Nat
        /\ "BOOKING_ROLLED" \in Codes
    BY <1>0, <1>a, <2>1 DEF SweepRow, Codes
  <2>3. Entry("shipment.exception_raised", "BOOKING_ROLLED", 0, 0, sweep[c].saw) \in Row
    BY <2>2, NewEntry DEF Types
  <2>4. history' \in Seq(Row) /\ Len(history) <= Len(history')
    BY <1>8, <1>a, <2>1, <2>3 DEF EscalationAppend
  <2> QED BY <1>8, <2>4, GrownType DEF EscalationAppend, SweepCalls
<1>9. ASSUME NEW c \in SweepCalls, SweepFails(c) PROVE WatchTypeOK'
  <2>1. /\ sweep' = [sweep EXCEPT ![c] = Idle] /\ sweepFaults' \in 0 .. MaxSweepFaults
        /\ UNCHANGED <<policy, now, history, shown, board, confirmed>>
    BY <1>0, <1>9 DEF SweepFails
  <2>2. Idle \in SweepRow(Len(history))
    BY IdleType
  <2> QED BY <2>1, <2>2, SweepType
<1>10. CASE UNCHANGED watchVars
  BY <1>10 DEF watchVars, WatchTypeOK
<1> QED BY <1>1, <1>2, <1>3, <1>4, <1>5, <1>6, <1>7, <1>8, <1>9, <1>10
  DEF WatchNext, SlaStep, LadderStep
-----------------------------------------------------------------------------
(* The sweeps over a shipment: the ladder.                                 *)

Before(i) == {j \in Chases : j < i}

\* The four parts of ChaseLadder.
AskedInTurn == \A i \in Chases : history[i].attempt = Cardinality(Before(i)) + 1

OccurredAt(j) == IF j = 0 THEN 0 ELSE history[j].at

AskedInTime ==
  \A i \in Chases : \A j \in Before(i) \cup {0} :
    history[i].at - OccurredAt(j) >= policy.ladder[history[i].attempt]

ToldLast ==
  \A i \in RaisesOf("BOOKING_ROLLED") : Cardinality(Before(i)) = Len(policy.ladder)

NotSeenLeaving ==
  \A i \in Chases \cup RaisesOf("BOOKING_ROLLED") : \A j \in DOMAIN history :
    j < i /\ history[j].type \in Departed => history[i].saw < j

LEMMA LadderParts == ChaseLadder <=> AskedInTurn /\ AskedInTime /\ ToldLast /\ NotSeenLeaving
BY Zenon DEF ChaseLadder, AskedInTurn, AskedInTime, ToldLast, NotSeenLeaving, Before, OccurredAt

\* Attempts are made without a gap, and none past the ladder's last.
AttemptsSound ==
  /\ Attempts <= Len(policy.ladder)
  /\ \A a \in 1 .. Attempts : Sent(a)

\* What a call of the ladder has decided still holds when it is the next to append: no
\* chase was sent since, or its own attempt was.
ChaseSound(c) ==
  sweep[c].kind = "chase" =>
    /\ sweep[c].attempt \in 1 .. Len(policy.ladder)
    /\ sweep[c].attempt - 1 <= Attempts
    /\ sweep[c].attempt - 1 = Attempts =>
         \A j \in Chases \cup {0} : now - OccurredAt(j) >= policy.ladder[sweep[c].attempt]

EscalationSound(c) == sweep[c].kind = "raise" => Attempts = Len(policy.ladder)

\* The departures a call has not seen are past what it saw.
SawSound(c) ==
  sweep[c].kind # "idle" =>
    \A j \in DOMAIN history : history[j].type \in Departed => sweep[c].saw < j

\* A booked shipment has not been shown to leave.
BookedSound ==
  board.status = "BOOKED" => \A j \in 1 .. shown : history[j].type \notin Departed

\* The SLA sweep chases nobody, and never raises a rolled booking.
SlaSound ==
  \A c \in SlaCalls :
    /\ sweep[c].kind # "chase"
    /\ sweep[c].codes \subseteq {"CONGESTION_DELAY", "CUSTOMS_QUERY"}

LadderInv ==
  /\ WatchTypeOK
  /\ AskedInTurn /\ AskedInTime /\ ToldLast /\ NotSeenLeaving
  /\ AttemptsSound /\ BookedSound /\ SlaSound
  /\ \A c \in LadderCalls : ChaseSound(c) /\ EscalationSound(c) /\ SawSound(c)

LEMMA OccurredInTime ==
  ASSUME WatchTypeOK
  PROVE  \A j \in Chases \cup {0} : OccurredAt(j) \in 0 .. MaxTime /\ OccurredAt(j) \in Nat
<1> SUFFICES ASSUME NEW j \in Chases \cup {0} PROVE OccurredAt(j) \in 0 .. MaxTime
  OBVIOUS
<1>1. CASE j = 0
  BY <1>1 DEF OccurredAt
<1>2. CASE j \in Chases
  <2>1. history \in Seq(Row) /\ j \in DOMAIN history /\ j # 0
    BY <1>2, AttemptsFinite DEF WatchTypeOK, Row, Types, Chases
  <2>2. history[j] \in Row
    BY <2>1
  <2> QED BY <2>1, <2>2 DEF OccurredAt, Row
<1> QED BY <1>1, <1>2

\* A bounded set of numbers has a greatest: the least of its bounds is in it.
LEMMA GreatestNumber ==
  ASSUME NEW S \in SUBSET Nat, S # {}, NEW bound \in Nat, \A m \in S : m <= bound
  PROVE  \E n \in S : \A m \in S : n >= m
<1> DEFINE Bounds == {n \in Nat : \A m \in S : m <= n}
<1>1. PICK n \in Bounds : \A b \in Bounds : n <= b
  <2>1. bound \in Bounds /\ Bounds \in SUBSET Nat
    OBVIOUS
  <2> HIDE DEF Bounds
  <2> QED BY <2>1, LeastNumber
<1>2. n \in Nat /\ \A m \in S : m \in Nat /\ n >= m
  OBVIOUS
<1>3. n \in S
  <2> SUFFICES ASSUME n \notin S PROVE FALSE
    OBVIOUS
  <2>1. \A m \in S : m <= n - 1
    BY <1>2
  <2>2. PICK m \in S : TRUE
    OBVIOUS
  <2>3. n - 1 \in Nat
    BY <1>2, <2>1, <2>2
  <2>4. n - 1 \in Bounds
    BY <2>1, <2>3
  <2> HIDE DEF Bounds
  <2>5. n <= n - 1
    BY <1>1, <2>4
  <2> QED BY <1>2, <2>5
<1> QED BY <1>2, <1>3

\* The wait is measured from the last chase, so it is over for each of them.
LEMMA LastIsLast ==
  ASSUME WatchTypeOK
  PROVE  /\ LastAttempt \in Nat
         /\ \A j \in Chases \cup {0} : OccurredAt(j) <= LastAttempt
<1>1. When({Requested}) = {history[j].at : j \in Chases}
  BY DEF When, Chases
<1>2. \A j \in Chases : j # 0 /\ OccurredAt(j) = history[j].at
  BY AttemptsFinite DEF OccurredAt
<1>3. \A t \in When({Requested}) : t \in Nat /\ t <= MaxTime
  BY <1>1, <1>2, OccurredInTime
<1>4. CASE When({Requested}) = {}
  <2>1. LastAttempt = 0 /\ Chases = {}
    BY <1>1, <1>4 DEF LastAttempt, Missing
  <2> QED BY <2>1 DEF OccurredAt
<1>5. CASE When({Requested}) # {}
  <2>1. \E t \in When({Requested}) : \A u \in When({Requested}) : t >= u
    <3>1. When({Requested}) \in SUBSET Nat /\ MaxTime \in Nat
      BY <1>3
    <3> QED BY <1>3, <1>5, <3>1, GreatestNumber
  <2>2. LastAttempt \in When({Requested}) /\ \A u \in When({Requested}) : LastAttempt >= u
    BY <1>5, <2>1, Zenon DEF LastAttempt, Missing
  <2>3. \A j \in Chases : OccurredAt(j) <= LastAttempt
    BY <1>1, <1>2, <1>3, <2>2
  <2> QED BY <1>3, <2>2, <2>3 DEF OccurredAt
<1> QED BY <1>4, <1>5

\* The log only grows.
Grew ==
  /\ policy' = policy /\ Len(history) <= Len(history') /\ history' \in Seq(Row)
  /\ \A i \in DOMAIN history : history'[i] = history[i]

LEMMA GrewFacts ==
  ASSUME WatchTypeOK, Grew
  PROVE  /\ DOMAIN history = 1 .. Len(history) /\ DOMAIN history' = 1 .. Len(history')
         /\ Len(history) \in Nat /\ Len(history') \in Nat
         /\ Chases \subseteq Chases'
         /\ \A i \in Chases' : i \in Chases \/ i > Len(history)
         /\ \A i \in DOMAIN history' : i \in DOMAIN history \/ i > Len(history)
         /\ \A i \in DOMAIN history : Before(i)' = Before(i)
         /\ \A c : RaisesOf(c) \subseteq RaisesOf(c)'
         /\ \A c : \A i \in RaisesOf(c)' : i \in RaisesOf(c) \/ i > Len(history)
         /\ \A j \in Chases \cup {0} : OccurredAt(j)' = OccurredAt(j)
         /\ \A a : Sent(a) => Sent(a)'
<1>1. /\ DOMAIN history = 1 .. Len(history) /\ DOMAIN history' = 1 .. Len(history')
      /\ Len(history) \in Nat /\ Len(history') \in Nat
  BY DEF WatchTypeOK, Grew
<1>2. DOMAIN history \subseteq DOMAIN history' /\ \A i \in DOMAIN history' : i \in DOMAIN history \/ i > Len(history)
  BY <1>1 DEF Grew
<1>3. \A i \in DOMAIN history : history'[i] = history[i] /\ i <= Len(history)
  BY <1>1 DEF Grew
<1>4. Chases \subseteq Chases' /\ \A i \in Chases' : i \in Chases \/ i > Len(history)
  BY <1>2, <1>3 DEF Chases
<1>5. \A i \in DOMAIN history : Before(i)' = Before(i)
  <2> SUFFICES ASSUME NEW i \in DOMAIN history PROVE Before(i)' = Before(i)
    OBVIOUS
  <2>1. \A j \in Chases' : j < i => j \in Chases
    <3> SUFFICES ASSUME NEW j \in Chases', j < i PROVE j \in Chases
      OBVIOUS
    <3>1. j \in Nat
      BY <1>1 DEF Chases
    <3> QED BY <1>1, <1>3, <1>4, <3>1
  <2> QED BY <1>4, <2>1 DEF Before
<1>6. \A c : RaisesOf(c) \subseteq RaisesOf(c)' /\ \A i \in RaisesOf(c)' : i \in RaisesOf(c) \/ i > Len(history)
  BY <1>2, <1>3 DEF RaisesOf, Raises
<1>7. \A j \in Chases \cup {0} : OccurredAt(j)' = OccurredAt(j)
  BY <1>3 DEF OccurredAt, Chases
<1>8. \A a : Sent(a) => Sent(a)'
  BY <1>2, <1>3 DEF Sent
<1> QED BY <1>1, <1>2, <1>4, <1>5, <1>6, <1>7, <1>8

\* A step that sends no chase, and escalates only when all were sent and none of the
\* departures it saw lies before.
LEMMA LadderKept ==
  ASSUME LadderInv, Grew,
         \A i \in DOMAIN history' : i > Len(history) =>
           /\ history'[i].type # Requested
           /\ Raises(history'[i]) = "BOOKING_ROLLED" =>
                /\ Attempts = Len(policy.ladder)
                /\ \A j \in DOMAIN history' :
                     j < i /\ history'[j].type \in Departed => history'[i].saw < j
  PROVE  /\ (AskedInTurn /\ AskedInTime /\ ToldLast /\ NotSeenLeaving /\ AttemptsSound)'
         /\ Chases' = Chases /\ Attempts' = Attempts
<1>1. Chases' = Chases /\ policy' = policy
  BY GrewFacts DEF LadderInv, Chases, Grew
<1>2. Attempts' = Attempts
  <2>1. Attempts = Cardinality(Chases) /\ Attempts' = Cardinality(Chases')
    BY DEF Attempts, Chases
  <2> QED BY <1>1, <2>1
<1>3. \A i \in Chases : i \in DOMAIN history /\ history'[i] = history[i]
  BY DEF Chases, Grew
<1>4. AskedInTurn'
  BY <1>1, <1>3, GrewFacts DEF LadderInv, AskedInTurn
<1>5. AskedInTime'
  <2> SUFFICES ASSUME NEW i \in Chases, NEW j \in Before(i) \cup {0}
               PROVE  history'[i].at - OccurredAt(j)' >= policy.ladder[history'[i].attempt]
    BY <1>1, <1>3, GrewFacts DEF LadderInv, AskedInTime
  <2>1. j \in Chases \cup {0}
    BY DEF Before
  <2>2. OccurredAt(j)' = OccurredAt(j)
    BY <2>1, GrewFacts DEF LadderInv
  <2> QED BY <1>3, <2>2 DEF LadderInv, AskedInTime
<1>6. ToldLast'
  <2> SUFFICES ASSUME NEW i \in RaisesOf("BOOKING_ROLLED")'
               PROVE  Cardinality(Before(i)') = Len(policy.ladder)
    BY <1>1 DEF ToldLast
  <2>1. CASE i \in RaisesOf("BOOKING_ROLLED")
    <3>1. i \in DOMAIN history
      BY <2>1 DEF RaisesOf
    <3> QED BY <2>1, <3>1, GrewFacts DEF LadderInv, ToldLast
  <2>2. CASE i > Len(history)
    <3>1. i \in DOMAIN history' /\ Raises(history'[i]) = "BOOKING_ROLLED"
      BY DEF RaisesOf
    <3>2. \A j \in Chases : j < i
      <4> SUFFICES ASSUME NEW j \in Chases PROVE j < i
        OBVIOUS
      <4>1. j \in 1 .. Len(history) /\ i \in 1 .. Len(history')
        BY <3>1, GrewFacts DEF LadderInv, Chases
      <4> QED BY <2>2, <4>1, GrewFacts DEF LadderInv
    <3>3. Before(i)' = Chases
      BY <1>1, <3>2 DEF Before
    <3>4. Attempts = Cardinality(Chases)
      BY AttemptsFinite DEF LadderInv
    <3> QED BY <2>2, <3>1, <3>3, <3>4
  <2> QED BY <2>1, <2>2, GrewFacts DEF LadderInv
<1>7. NotSeenLeaving'
  <2> SUFFICES ASSUME NEW i \in Chases \cup RaisesOf("BOOKING_ROLLED")', NEW j \in DOMAIN history',
                      j < i, history'[j].type \in Departed
               PROVE  history'[i].saw < j
    BY <1>1 DEF NotSeenLeaving, Departed
  <2>1. CASE i \in Chases \cup RaisesOf("BOOKING_ROLLED")
    <3>1. i \in DOMAIN history /\ j \in DOMAIN history
      <4>1. i \in DOMAIN history
        BY <2>1 DEF Chases, RaisesOf
      <4>2. i \in 1 .. Len(history) /\ j \in 1 .. Len(history')
        BY <4>1, GrewFacts DEF LadderInv
      <4> QED BY <4>1, <4>2, GrewFacts DEF LadderInv
    <3> QED BY <2>1, <3>1 DEF LadderInv, NotSeenLeaving, Grew
  <2>2. CASE i > Len(history) /\ i \in RaisesOf("BOOKING_ROLLED")'
    BY <2>2 DEF RaisesOf
  <2> QED BY <2>1, <2>2, GrewFacts DEF LadderInv
<1>8. AttemptsSound'
  BY <1>1, <1>2, GrewFacts DEF LadderInv, AttemptsSound
<1> QED BY <1>1, <1>2, <1>4, <1>5, <1>6, <1>7, <1>8

\* What calls have decided survives a step that leaves them or ends them.
LEMMA DecidedKept ==
  ASSUME LadderInv, Grew, now' >= now, now' \in Nat,
         Attempts' \in Nat, Attempts <= Attempts', Attempts' <= Len(policy.ladder),
         Attempts' = Attempts => Chases' = Chases,
         NEW c \in LadderCalls, sweep'[c] = sweep[c] \/ sweep'[c] = Idle
  PROVE  (ChaseSound(c) /\ EscalationSound(c) /\ SawSound(c))'
<1>1. CASE sweep'[c] = Idle
  BY <1>1 DEF ChaseSound, EscalationSound, SawSound, Idle
<1>2. CASE sweep'[c] = sweep[c]
  <2>1. /\ ChaseSound(c) /\ EscalationSound(c) /\ SawSound(c) /\ policy' = policy
        /\ now \in Nat /\ Attempts \in Nat /\ Len(policy.ladder) \in Nat
    <3>1. WatchTypeOK /\ ChaseSound(c) /\ EscalationSound(c) /\ SawSound(c) /\ policy' = policy
      BY DEF LadderInv, Grew
    <3>2. now \in Nat
      BY <3>1 DEF WatchTypeOK
    <3>3. Attempts \in Nat /\ Len(policy.ladder) \in Nat
      BY <3>1, AttemptsFinite, PolicySound
    <3> QED BY <3>1, <3>2, <3>3
  <2>2. sweep[c].saw \in Nat /\ sweep[c].saw <= Len(history) /\ sweep[c].attempt \in Nat
    <3>1. sweep[c] \in SweepRow(Len(history)) /\ Len(history) \in Nat
      BY DEF LadderInv, WatchTypeOK, SweepRow, SweepCalls
    <3> QED BY <2>1, <3>1 DEF SweepRow
  <2>3. SawSound(c)'
    <3> SUFFICES ASSUME sweep[c].kind # "idle", NEW j \in DOMAIN history',
                        history'[j].type \in Departed
                 PROVE  sweep[c].saw < j
      BY <1>2 DEF SawSound, Departed
    <3>1. CASE j \in DOMAIN history
      BY <2>1, <3>1 DEF SawSound, Grew
    <3>2. CASE j > Len(history)
      <4>1. j \in Nat /\ Len(history) \in Nat
        BY GrewFacts DEF LadderInv
      <4> QED BY <2>2, <3>2, <4>1
    <3> QED BY <3>1, <3>2, GrewFacts DEF LadderInv
  <2>4. EscalationSound(c)'
    BY <1>2, <2>1 DEF EscalationSound
  <2>5. ChaseSound(c)'
    <3> SUFFICES ASSUME sweep[c].kind = "chase"
                 PROVE  /\ sweep[c].attempt - 1 <= Attempts'
                        /\ sweep[c].attempt - 1 = Attempts' =>
                             \A j \in Chases' \cup {0} :
                               now' - OccurredAt(j)' >= policy.ladder[sweep[c].attempt]
      BY <1>2, <2>1 DEF ChaseSound
    <3>1. sweep[c].attempt - 1 <= Attempts
      BY <2>1 DEF ChaseSound
    <3>2. ASSUME sweep[c].attempt - 1 = Attempts', NEW j \in Chases' \cup {0}
          PROVE  now' - OccurredAt(j)' >= policy.ladder[sweep[c].attempt]
      <4>1. Attempts' = Attempts /\ sweep[c].attempt - 1 = Attempts
        BY <2>1, <2>2, <3>1, <3>2
      <4>2. j \in Chases \cup {0}
        BY <3>2, <4>1
      <4>3. now - OccurredAt(j) >= policy.ladder[sweep[c].attempt] /\ OccurredAt(j)' = OccurredAt(j)
        BY <2>1, <4>1, <4>2, GrewFacts DEF ChaseSound, LadderInv
      <4>4. OccurredAt(j) \in Nat
        BY <4>2, OccurredInTime DEF LadderInv
      <4>5. policy.ladder[sweep[c].attempt] \in Nat
        BY <2>1, PolicySound DEF ChaseSound, LadderInv
      <4> QED BY <2>1, <4>3, <4>4, <4>5
    <3> QED BY <2>1, <2>2, <3>1, <3>2
  <2> QED BY <2>3, <2>4, <2>5
<1> QED BY <1>1, <1>2

LEMMA SameLog ==
  ASSUME WatchTypeOK, history' = history, policy' = policy
  PROVE  Grew /\ \A i \in DOMAIN history' : ~(i > Len(history))
BY DEF Grew, WatchTypeOK, Row, Types

\* Everything but LadderInv's types, when the log keeps its chases.
LEMMA LadderQuiet ==
  ASSUME LadderInv, WatchTypeOK', Grew,
         \A i \in DOMAIN history' : i > Len(history) =>
           /\ history'[i].type # Requested
           /\ Raises(history'[i]) = "BOOKING_ROLLED" =>
                /\ Attempts = Len(policy.ladder)
                /\ \A j \in DOMAIN history' :
                     j < i /\ history'[j].type \in Departed => history'[i].saw < j,
         now' >= now,
         \A c \in LadderCalls : \/ sweep'[c] = sweep[c] \/ sweep'[c] = Idle
                                \/ (ChaseSound(c) /\ EscalationSound(c) /\ SawSound(c))',
         BookedSound', SlaSound'
  PROVE  LadderInv'
<1>1. /\ (AskedInTurn /\ AskedInTime /\ ToldLast /\ NotSeenLeaving /\ AttemptsSound)'
      /\ Chases' = Chases /\ Attempts' = Attempts
  BY LadderKept
<1>2. Attempts \in Nat /\ Attempts <= Len(policy.ladder) /\ now' \in Nat
  BY AttemptsFinite DEF LadderInv, AttemptsSound, WatchTypeOK
<1>3. \A c \in LadderCalls : (ChaseSound(c) /\ EscalationSound(c) /\ SawSound(c))'
  BY <1>1, <1>2, DecidedKept
<1> QED BY <1>1, <1>3 DEF LadderInv

LEMMA RowsAreSeq ==
  ASSUME NEW S, NEW n \in Nat, NEW f \in [1 .. n -> S]
  PROVE  f \in Seq(S)
OBVIOUS

\* What the SLA sweep appends.
LEMMA SlaAppended ==
  ASSUME WatchTypeOK, WatchTypeOK', policy' = policy, NEW c \in SweepCalls,
         NEW order \in [1 .. Cardinality(sweep[c].codes) -> sweep[c].codes],
         history' = history \o [i \in DOMAIN order |->
            Entry("shipment.exception_raised", order[i], 0, 0, sweep[c].saw)]
  PROVE  /\ history' \in Seq(Row) /\ Len(history') >= Len(history)
         /\ \A i \in DOMAIN history : history'[i] = history[i]
         /\ \A i \in DOMAIN history' : i > Len(history) =>
             \E k \in sweep[c].codes :
               history'[i] = Entry("shipment.exception_raised", k, 0, 0, sweep[c].saw)
<1> DEFINE E(k) == Entry("shipment.exception_raised", k, 0, 0, sweep[c].saw)
           more == [i \in DOMAIN order |-> E(order[i])]
<1>1. Cardinality(sweep[c].codes) \in Nat
  <2>1. sweep[c].codes \subseteq Codes
    BY DEF WatchTypeOK
  <2> QED BY <2>1, FS_CardinalityType, CodesFinite
<1>2. more \in Seq({E(k) : k \in sweep[c].codes})
  <2> PICK n \in Nat : n = Cardinality(sweep[c].codes)
    BY <1>1
  <2>1. DOMAIN more = 1 .. n
    OBVIOUS
  <2>2. \A i \in 1 .. n : more[i] \in {E(k) : k \in sweep[c].codes}
    BY <2>1
  <2>3. more = [i \in DOMAIN more |-> more[i]]
    OBVIOUS
  <2> HIDE DEF more, E
  <2>4. more \in [1 .. n -> {E(k) : k \in sweep[c].codes}]
    BY <2>1, <2>2, <2>3
  <2> QED BY <2>4, RowsAreSeq
<1>3. \A i \in DOMAIN more : \E k \in sweep[c].codes : more[i] = E(k)
  OBVIOUS
<1>4. history \in Seq(Row) /\ history' \in Seq(Row)
  <2>1. history' \in Seq(Row)' /\ Row' = Row
    BY DEF WatchTypeOK, Row, Types
  <2> QED BY <2>1 DEF WatchTypeOK, Row, Types
<1> DEFINE S == Row \cup {E(k) : k \in sweep[c].codes}
<1>5. history \in Seq(S) /\ more \in Seq(S) /\ history' = history \o more
  BY <1>2, <1>4
<1> HIDE DEF more, S, E
<1>6. /\ history' = history \o more /\ Len(history) \in Nat /\ Len(more) \in Nat
      /\ Len(history') >= Len(history)
      /\ \A i \in DOMAIN history : history'[i] = history[i]
      /\ \A i \in DOMAIN history' : i > Len(history) =>
           i - Len(history) \in DOMAIN more /\ history'[i] = more[i - Len(history)]
  <2>1. /\ Len(history) \in Nat /\ Len(more) \in Nat
        /\ Len(history \o more) = Len(history) + Len(more)
        /\ Len(history \o more) >= Len(history)
        /\ DOMAIN history = 1 .. Len(history) /\ DOMAIN more = 1 .. Len(more)
        /\ DOMAIN (history \o more) = 1 .. Len(history) + Len(more)
    BY <1>5
  <2>2. \A i \in 1 .. Len(history) + Len(more) :
          (history \o more)[i] = IF i <= Len(history) THEN history[i] ELSE more[i - Len(history)]
    BY <1>5
  <2>3. \A i \in 1 .. Len(history) : (history \o more)[i] = history[i]
    BY <2>1, <2>2
  <2>4. \A i \in 1 .. Len(history) + Len(more) : i > Len(history) =>
          i - Len(history) \in 1 .. Len(more) /\ (history \o more)[i] = more[i - Len(history)]
    BY <2>1, <2>2
  <2>5. history' = history \o more
    BY <1>5
  <2> QED BY <2>1, <2>3, <2>4, <2>5, Zenon
<1>7. \A i \in DOMAIN history' : i > Len(history) => \E k \in sweep[c].codes : history'[i] = E(k)
  BY <1>3, <1>6
<1>8. Len(history') >= Len(history)
  BY <1>6
<1> QED BY <1>4, <1>6, <1>7, <1>8, Zenon DEF E

\* The chase that is appended is the next of the ladder, after its wait.
LEMMA ChaseSent ==
  ASSUME LadderInv, WatchTypeOK', NEW c \in LadderCalls, sweep[c].kind = "chase",
         ~Sent(sweep[c].attempt), UNCHANGED <<policy, now>>,
         history' = Append(history, Entry(Requested, None, sweep[c].attempt, now, sweep[c].saw))
  PROVE  /\ (AskedInTurn /\ AskedInTime /\ ToldLast /\ NotSeenLeaving /\ AttemptsSound)'
         /\ Grew /\ Attempts' = Attempts + 1
<1> DEFINE e == Entry(Requested, None, sweep[c].attempt, now, sweep[c].saw)
<1> PICK n : n = Len(history) + 1
  OBVIOUS
<1>1. /\ e.type = Requested /\ e.attempt = sweep[c].attempt /\ e.at = now /\ e.saw = sweep[c].saw
      /\ Raises(e) = None
  BY DEF Entry, Requested, Raises
<1> HIDE DEF e
<1>2. /\ Grew /\ n \in DOMAIN history' /\ history'[n] = e /\ Len(history) \in Nat
      /\ \A i \in DOMAIN history' : i > Len(history) => i = n
  <2>1. history' \in Seq(Row)' /\ Row' = Row /\ history \in Seq(Row)
    BY DEF LadderInv, WatchTypeOK, Row, Types
  <2>2. history' = Append(history, e)
    BY DEF e
  <2>3. /\ Len(history') = n /\ DOMAIN history' = 1 .. n /\ Len(history) \in Nat
        /\ \A i \in DOMAIN history : history'[i] = history[i]
        /\ history'[n] = e
    BY <2>1, <2>2
  <2> QED BY <2>1, <2>3 DEF Grew
<1>3. n \in Nat /\ n > Len(history) /\ \A i \in DOMAIN history : i < n /\ i # n
  BY <1>2, GrewFacts DEF LadderInv
<1>4. Chases' = Chases \cup {n} /\ n \notin Chases
  <2>1. n \in Chases' /\ n \notin Chases
    BY <1>1, <1>2, <1>3 DEF Chases
  <2>2. \A i \in Chases' : i \in DOMAIN history'
    BY DEF Chases
  <2> QED BY <1>2, <2>1, <2>2, GrewFacts DEF LadderInv
<1>5. Attempts' = Attempts + 1 /\ Attempts \in Nat /\ Attempts = Cardinality(Chases)
  <2>1. Attempts' = Cardinality(Chases')
    BY DEF Attempts, Chases
  <2> QED BY <1>4, <2>1, AttemptsFinite, FS_AddElement DEF LadderInv
<1>6. sweep[c].attempt = Attempts + 1 /\ sweep[c].attempt <= Len(policy.ladder)
  <2>1. ChaseSound(c) /\ AttemptsSound
    BY DEF LadderInv
  <2>2. /\ sweep[c].attempt \in 1 .. Len(policy.ladder) /\ sweep[c].attempt - 1 <= Attempts
        /\ Len(policy.ladder) \in Nat
    BY <2>1, PolicySound DEF ChaseSound, LadderInv
  <2>3. ~(sweep[c].attempt <= Attempts)
    BY <1>5, <2>1, <2>2 DEF AttemptsSound
  <2> QED BY <1>5, <2>2, <2>3
<1>7. \A i \in Chases : i \in DOMAIN history /\ history'[i] = history[i] /\ Before(i)' = Before(i)
  BY <1>2, GrewFacts DEF LadderInv, Chases, Grew
<1>8. Before(n)' = Chases
  <2>1. \A j \in Chases : j < n
    BY <1>3 DEF Chases
  <2>2. ~(n < n)
    BY <1>3
  <2> QED BY <1>4, <2>1, <2>2 DEF Before
<1>9. AskedInTurn'
  <2>1. history'[n].attempt = Cardinality(Before(n)') + 1
    BY <1>1, <1>2, <1>5, <1>6, <1>8
  <2> QED BY <1>4, <1>7, <2>1 DEF LadderInv, AskedInTurn
<1>10. AskedInTime'
  <2>1. \A j \in Chases \cup {0} : OccurredAt(j)' = OccurredAt(j)
    BY <1>2, GrewFacts DEF LadderInv
  <2>2. \A j \in Chases \cup {0} : now - OccurredAt(j) >= policy.ladder[sweep[c].attempt]
    <3>1. ChaseSound(c)
      BY DEF LadderInv
    <3>2. sweep[c].attempt - 1 = Attempts
      BY <1>5, <1>6
    <3> QED BY <3>1, <3>2 DEF ChaseSound
  <2>3. \A j \in Before(n)' \cup {0} : history'[n].at - OccurredAt(j)' >= policy.ladder[history'[n].attempt]
    BY <1>1, <1>2, <1>8, <2>1, <2>2
  <2>4. \A i \in Chases : \A j \in Before(i) \cup {0} :
          history'[i].at - OccurredAt(j)' >= policy.ladder[history'[i].attempt]
    <3> SUFFICES ASSUME NEW i \in Chases, NEW j \in Before(i) \cup {0}
                 PROVE  history'[i].at - OccurredAt(j)' >= policy.ladder[history'[i].attempt]
      OBVIOUS
    <3>1. OccurredAt(j)' = OccurredAt(j)
      BY <2>1 DEF Before
    <3> QED BY <1>7, <3>1 DEF LadderInv, AskedInTime
  <2> QED BY <1>4, <1>7, <2>3, <2>4 DEF AskedInTime
<1>11. RaisesOf("BOOKING_ROLLED")' = RaisesOf("BOOKING_ROLLED")
  <2>1. n \notin RaisesOf("BOOKING_ROLLED")'
    BY <1>1, <1>2 DEF RaisesOf, None
  <2>2. \A i \in RaisesOf("BOOKING_ROLLED")' : i \in DOMAIN history'
    BY DEF RaisesOf
  <2> QED BY <1>2, <2>1, <2>2, GrewFacts DEF LadderInv
<1>12. ToldLast'
  <2>1. \A i \in RaisesOf("BOOKING_ROLLED") : Before(i)' = Before(i)
    BY <1>2, GrewFacts DEF LadderInv, RaisesOf
  <2> QED BY <1>11, <2>1 DEF LadderInv, ToldLast
<1>13. NotSeenLeaving'
  <2> SUFFICES ASSUME NEW i \in Chases' \cup RaisesOf("BOOKING_ROLLED")', NEW j \in DOMAIN history',
                      j < i, history'[j].type \in Departed
               PROVE  history'[i].saw < j
    BY DEF NotSeenLeaving, Departed
  <2>1. CASE i \in Chases \cup RaisesOf("BOOKING_ROLLED")
    <3>1. i \in DOMAIN history
      BY <2>1 DEF Chases, RaisesOf
    <3>2. j \in DOMAIN history
      <4>1. i \in 1 .. Len(history) /\ j \in 1 .. Len(history')
        BY <1>2, <3>1, GrewFacts DEF LadderInv
      <4> QED BY <1>2, <4>1, GrewFacts DEF LadderInv
    <3> QED BY <1>2, <2>1, <3>1, <3>2 DEF LadderInv, NotSeenLeaving, Grew
  <2>2. CASE i = n
    <3>1. j # n /\ j \in DOMAIN history
      BY <1>2, <1>3, <2>2, GrewFacts DEF LadderInv
    <3> QED BY <1>1, <1>2, <2>2, <3>1 DEF LadderInv, SawSound, Grew
  <2> QED BY <1>4, <1>11, <2>1, <2>2
<1>14. AttemptsSound'
  <2>1. \A a : a = Attempts + 1 => Sent(a)'
    BY <1>1, <1>2, <1>6 DEF Sent
  <2>2. \A a \in 1 .. Attempts : Sent(a)'
    BY <1>2, GrewFacts DEF LadderInv, AttemptsSound
  <2>3. \A a \in 1 .. Attempts + 1 : a \in 1 .. Attempts \/ a = Attempts + 1
    BY <1>5
  <2> QED BY <1>5, <1>6, <2>1, <2>2, <2>3 DEF AttemptsSound
<1> QED BY <1>2, <1>5, <1>9, <1>10, <1>12, <1>13, <1>14

LEMMA LadderStepInv ==
  ASSUME LadderInv, [WatchNext]_watchVars
  PROVE  LadderInv'
<1>0. WatchTypeOK /\ WatchTypeOK'
  BY WatchTypeStep DEF LadderInv
<1>t. /\ now \in Nat /\ Len(history) \in Nat /\ shown \in 0 .. Len(history)
      /\ DOMAIN history = 1 .. Len(history) /\ history \in Seq(Row)
      /\ sweep \in [SweepCalls -> SweepRow(Len(history))]
  BY <1>0 DEF WatchTypeOK, Row, Types, SweepRow
<1>s. SlaCalls \subseteq SweepCalls /\ LadderCalls \subseteq SweepCalls /\ SlaCalls \cap LadderCalls = {}
  BY DEF SweepCalls
<1>k. ASSUME UNCHANGED <<board, shown>>, Grew PROVE BookedSound'
  <2>1. \A j \in 1 .. shown : j \in DOMAIN history
    BY <1>t
  <2> QED BY <1>k, <2>1 DEF LadderInv, BookedSound, Grew, Departed
<1>1. CASE Tick
  <2>1. now' = now + 1 /\ UNCHANGED <<policy, history, shown, board, confirmed, sweep>>
    BY <1>1 DEF Tick
  <2>2. Grew /\ \A i \in DOMAIN history' : ~(i > Len(history))
    BY <1>0, <2>1, SameLog
  <2>3. BookedSound' /\ SlaSound'
    BY <1>k, <2>1, <2>2 DEF LadderInv, SlaSound
  <2> QED BY <1>0, <1>t, <2>1, <2>2, <2>3, LadderQuiet
<1>2. CASE Report
  <2>1. PICK t \in Milestones, at \in 0 .. now : history' = Append(history, Entry(t, None, 0, at, 0))
    BY <1>2 DEF Report
  <2>2. UNCHANGED <<policy, now, shown, board, confirmed, sweep>>
    BY <1>2 DEF Report
  <2>3. Grew /\ \A i \in DOMAIN history' : i > Len(history) => history'[i] = Entry(t, None, 0, at, 0)
    <3>1. history' \in Seq(Row)
      <4>1. history' \in Seq(Row)' /\ Row' = Row
        BY <1>0, <2>2 DEF WatchTypeOK, Row, Types
      <4> QED BY <4>1
    <3>2. /\ Len(history') = Len(history) + 1 /\ DOMAIN history' = 1 .. Len(history) + 1
          /\ \A i \in DOMAIN history : history'[i] = history[i]
          /\ history'[Len(history) + 1] = Entry(t, None, 0, at, 0)
      BY <1>t, <2>1
    <3> QED BY <1>t, <2>2, <3>1, <3>2 DEF Grew
  <2>4. Entry(t, None, 0, at, 0).type # Requested /\ Raises(Entry(t, None, 0, at, 0)) # "BOOKING_ROLLED"
    <3>1. t \notin {Requested, "shipment.exception_raised", "booking.rolled"}
      OBVIOUS
    <3>2. Entry(t, None, 0, at, 0).type = t
      BY DEF Entry
    <3>3. \A e : e.type \notin {"shipment.exception_raised", "booking.rolled"} =>
            Raises(e) # "BOOKING_ROLLED"
      BY DEF Raises, None
    <3> QED BY <3>1, <3>2, <3>3, Zenon
  <2>5. BookedSound' /\ SlaSound'
    BY <1>k, <2>2, <2>3 DEF LadderInv, SlaSound
  <2> QED BY <1>0, <1>t, <2>2, <2>3, <2>4, <2>5, LadderQuiet
<1>3. CASE Project
  <2>1. /\ shown' = shown + 1 /\ board' = ProjectEvent(board, history[shown + 1])
        /\ shown + 1 \in DOMAIN history
        /\ UNCHANGED <<policy, now, history, confirmed, sweep>>
    BY <1>t, <1>3 DEF Project
  <2>2. Grew /\ \A i \in DOMAIN history' : ~(i > Len(history))
    BY <1>0, <2>1, SameLog
  <2>3. history[shown + 1].type # "shipment.booked"
    <3>1. history[shown + 1] \in Row
      BY <1>t, <2>1
    <3> QED BY <3>1 DEF Row, Types, Requested
  <2>4. board'.status = "BOOKED" => board.status = "BOOKED" /\ history[shown + 1].type \notin Departed
    BY <2>1, <2>3 DEF ProjectEvent, StatusAfter, Departed, None
  <2>5. BookedSound'
    BY <1>t, <2>1, <2>4 DEF LadderInv, BookedSound, Departed
  <2>6. SlaSound'
    BY <2>1 DEF LadderInv, SlaSound
  <2> QED BY <1>0, <1>t, <2>1, <2>2, <2>5, <2>6, LadderQuiet
<1>4. ASSUME NEW c \in SlaCalls, SlaRead(c) PROVE LadderInv'
  <2>1. /\ sweep' = [sweep EXCEPT ![c] =
                      [kind |-> "raise", codes |-> Breaches, attempt |-> 0, saw |-> shown]]
        /\ UNCHANGED <<policy, now, history, shown, board>>
    BY <1>4 DEF SlaRead
  <2>2. Grew /\ \A i \in DOMAIN history' : ~(i > Len(history))
    BY <1>0, <2>1, SameLog
  <2>3. SlaSound'
    <3> SUFFICES ASSUME NEW d \in SlaCalls
                 PROVE  /\ sweep'[d].kind # "chase"
                        /\ sweep'[d].codes \subseteq {"CONGESTION_DELAY", "CUSTOMS_QUERY"}
      BY DEF SlaSound
    <3>1. CASE d = c
      BY <1>t, <1>s, <2>1, <3>1, BreachCodes
    <3>2. CASE d # c
      BY <1>t, <1>s, <2>1, <3>2 DEF LadderInv, SlaSound
    <3> QED BY <3>1, <3>2
  <2>4. \A d \in LadderCalls : sweep'[d] = sweep[d]
    BY <1>t, <1>s, <2>1
  <2> QED BY <1>0, <1>t, <1>k, <2>1, <2>2, <2>3, <2>4, LadderQuiet
<1>5. ASSUME NEW c \in SlaCalls, SlaAppend(c) PROVE LadderInv'
  <2>1. PICK order \in [1 .. Cardinality(sweep[c].codes) -> sweep[c].codes] :
          history' = history \o [i \in DOMAIN order |->
            Entry("shipment.exception_raised", order[i], 0, 0, sweep[c].saw)]
    BY <1>5, Zenon DEF SlaAppend
  <2>2. /\ sweep' = [sweep EXCEPT ![c] = Idle]
        /\ UNCHANGED <<policy, now, shown, board>>
    BY <1>5 DEF SlaAppend
  <2>3. /\ history' \in Seq(Row) /\ Len(history') >= Len(history)
        /\ \A i \in DOMAIN history : history'[i] = history[i]
        /\ \A i \in DOMAIN history' : i > Len(history) =>
             \E k \in sweep[c].codes :
               history'[i] = Entry("shipment.exception_raised", k, 0, 0, sweep[c].saw)
    BY <1>0, <1>s, <2>1, <2>2, SlaAppended
  <2>4. Grew
    BY <2>2, <2>3, <1>t, <1>0 DEF Grew, WatchTypeOK
  <2>5. \A i \in DOMAIN history' : i > Len(history) =>
          history'[i].type # Requested /\ Raises(history'[i]) # "BOOKING_ROLLED"
    <3>1. \A k \in sweep[c].codes : k # "BOOKING_ROLLED"
      BY DEF LadderInv, SlaSound
    <3>2. \A k \in sweep[c].codes :
            /\ Entry("shipment.exception_raised", k, 0, 0, sweep[c].saw).type # Requested
            /\ Raises(Entry("shipment.exception_raised", k, 0, 0, sweep[c].saw)) = k
      BY DEF Entry, Raises, Requested
    <3> QED BY <2>3, <3>1, <3>2
  <2>6. \A d \in SweepCalls : sweep'[d] = sweep[d] \/ sweep'[d] = Idle
    BY <1>t, <2>2
  <2>7. SlaSound'
    BY <1>s, <2>6 DEF LadderInv, SlaSound, Idle
  <2>8. BookedSound'
    BY <1>k, <2>2, <2>4
  <2> QED BY <1>0, <1>t, <1>s, <2>2, <2>4, <2>5, <2>6, <2>7, <2>8, LadderQuiet
<1>6. ASSUME NEW c \in LadderCalls, LadderRead(c) PROVE LadderInv'
  <2>1. /\ board.status = "BOOKED" /\ UNCHANGED <<policy, now, history, shown, board>>
    BY <1>6 DEF LadderRead
  <2>2. Grew /\ \A i \in DOMAIN history' : ~(i > Len(history))
    BY <1>0, <2>1, SameLog
  <2>3. SlaSound' /\ \A d \in LadderCalls : d # c => sweep'[d] = sweep[d]
    <3>1. \A d \in SweepCalls : d # c => sweep'[d] = sweep[d]
      BY <1>t, <1>6 DEF LadderRead
    <3> QED BY <1>s, <3>1 DEF LadderInv, SlaSound
  <2>4. ASSUME NEW r, sweep' = [sweep EXCEPT ![c] = r], r.saw = shown PROVE SawSound(c)'
    <3>1. sweep'[c].saw = shown
      BY <1>t, <1>s, <2>4
    <3>2. \A j \in DOMAIN history : history[j].type \in Departed => shown < j
      BY <1>t, <2>1 DEF LadderInv, BookedSound
    <3> QED BY <2>1, <3>1, <3>2 DEF SawSound, Departed
  <2>5. (ChaseSound(c) /\ EscalationSound(c) /\ SawSound(c))'
    <3>0. Attempts \in Nat /\ Chases' = Chases /\ Attempts' = Attempts
      BY <1>0, <2>1, AttemptsFinite DEF Attempts, Chases
    <3>1. CASE ChaseDue /\ sweep' = [sweep EXCEPT ![c] =
                       [kind |-> "chase", codes |-> {}, attempt |-> Attempts + 1, saw |-> shown]]
      <4>1. /\ sweep'[c].kind = "chase" /\ sweep'[c].attempt = Attempts + 1
        BY <1>t, <1>s, <3>1
      <4>2. Attempts + 1 \in 1 .. Len(policy.ladder) /\ Len(policy.ladder) \in Nat
        BY <1>0, <3>0, <3>1, PolicySound DEF ChaseDue
      <4>3. ASSUME NEW j \in Chases \cup {0}
            PROVE  now - OccurredAt(j) >= policy.ladder[Attempts + 1]
        <5>1. OccurredAt(j) \in Nat /\ LastAttempt \in Nat /\ OccurredAt(j) <= LastAttempt
          BY <1>0, OccurredInTime, LastIsLast
        <5>2. now - LastAttempt >= policy.ladder[Attempts + 1]
          BY <3>1 DEF ChaseDue
        <5>3. policy.ladder[Attempts + 1] \in Nat
          BY <1>0, <4>2, PolicySound
        <5> QED BY <1>t, <5>1, <5>2, <5>3
      <4>4. ChaseSound(c)'
        BY <2>1, <3>0, <4>1, <4>2, <4>3 DEF ChaseSound, OccurredAt
      <4>5. EscalationSound(c)'
        BY <4>1 DEF EscalationSound
      <4>6. SawSound(c)'
        <5>1. [kind |-> "chase", codes |-> {}, attempt |-> Attempts + 1, saw |-> shown].saw = shown
          OBVIOUS
        <5> QED BY <2>4, <3>1, <5>1
      <4> QED BY <4>4, <4>5, <4>6
    <3>2. CASE EscalationDue /\ sweep' = [sweep EXCEPT ![c] =
                       [kind |-> "raise", codes |-> {"BOOKING_ROLLED"}, attempt |-> 0, saw |-> shown]]
      <4>1. sweep'[c].kind = "raise"
        BY <1>t, <1>s, <3>2
      <4>2. Attempts = Len(policy.ladder)
        BY <1>0, <3>0, <3>2, PolicySound DEF EscalationDue, LadderInv, AttemptsSound
      <4>3. SawSound(c)'
        <5>1. [kind |-> "raise", codes |-> {"BOOKING_ROLLED"}, attempt |-> 0, saw |-> shown].saw = shown
          OBVIOUS
        <5> QED BY <2>4, <3>2, <5>1
      <4>4. ChaseSound(c)' /\ EscalationSound(c)'
        BY <2>1, <3>0, <4>1, <4>2 DEF ChaseSound, EscalationSound
      <4> QED BY <4>3, <4>4
    <3> QED BY <1>6, <3>1, <3>2 DEF LadderRead
  <2>6. BookedSound'
    BY <1>k, <2>1, <2>2
  <2> QED BY <1>0, <1>t, <2>1, <2>2, <2>3, <2>5, <2>6, LadderQuiet
<1>7. ASSUME NEW c \in LadderCalls, ChaseAppend(c) PROVE LadderInv'
  <2>1. /\ sweep[c].kind = "chase" /\ sweep' = [sweep EXCEPT ![c] = Idle]
        /\ history' = IF Sent(sweep[c].attempt) THEN history
                      ELSE Append(history, Entry(Requested, None, sweep[c].attempt, now, sweep[c].saw))
        /\ UNCHANGED <<policy, now, shown, board>>
    BY <1>7, Zenon DEF ChaseAppend
  <2>2. \A d \in SweepCalls : sweep'[d] = sweep[d] \/ sweep'[d] = Idle
    BY <1>t, <2>1
  <2>3. SlaSound'
    BY <1>s, <2>2 DEF LadderInv, SlaSound, Idle
  <2>4. CASE Sent(sweep[c].attempt)
    <3>1. Grew /\ \A i \in DOMAIN history' : ~(i > Len(history))
      BY <1>0, <2>1, <2>4, SameLog
    <3>2. BookedSound'
      BY <1>k, <2>1, <3>1
    <3> QED BY <1>0, <1>t, <1>s, <2>1, <2>2, <2>3, <3>1, <3>2, LadderQuiet
  <2>5. CASE ~Sent(sweep[c].attempt)
    <3>1. history' = Append(history, Entry(Requested, None, sweep[c].attempt, now, sweep[c].saw))
      BY <2>1, <2>5
    <3>2. (AskedInTurn /\ AskedInTime /\ ToldLast /\ NotSeenLeaving /\ AttemptsSound)'
          /\ Grew /\ Attempts' = Attempts + 1
      BY <1>0, <2>1, <2>5, <3>1, ChaseSent
    <3>3. BookedSound'
      BY <1>k, <2>1, <3>2
    <3>4. Attempts \in Nat /\ Attempts' <= Len(policy.ladder)
      BY <1>0, <2>1, <3>2, AttemptsFinite DEF AttemptsSound
    <3>5. \A d \in LadderCalls : (ChaseSound(d) /\ EscalationSound(d) /\ SawSound(d))'
      BY <1>t, <1>s, <2>1, <2>2, <3>2, <3>4, DecidedKept
    <3> QED BY <1>0, <2>3, <3>2, <3>3, <3>5 DEF LadderInv
  <2> QED BY <2>4, <2>5
<1>8. ASSUME NEW c \in LadderCalls, EscalationAppend(c) PROVE LadderInv'
  <2> DEFINE e == Entry("shipment.exception_raised", "BOOKING_ROLLED", 0, 0, sweep[c].saw)
  <2>1. /\ sweep[c].kind = "raise" /\ sweep' = [sweep EXCEPT ![c] = Idle]
        /\ history' = Append(history, e) /\ UNCHANGED <<policy, now, shown, board>>
    BY <1>8 DEF EscalationAppend
  <2>2. e.type # Requested /\ e.type \notin Departed /\ e.saw = sweep[c].saw
    BY DEF Entry, Requested, Departed
  <2> HIDE DEF e
  <2>3. /\ Grew /\ DOMAIN history' = 1 .. Len(history) + 1
        /\ \A i \in DOMAIN history' : i > Len(history) => i = Len(history) + 1 /\ history'[i] = e
    <3>1. history' \in Seq(Row)' /\ Row' = Row
      BY <1>0, <2>1 DEF WatchTypeOK, Row, Types
    <3>2. /\ Len(history') = Len(history) + 1 /\ DOMAIN history' = 1 .. Len(history) + 1
          /\ \A i \in DOMAIN history : history'[i] = history[i]
          /\ history'[Len(history) + 1] = e
      BY <1>t, <2>1
    <3> QED BY <1>t, <2>1, <3>1, <3>2 DEF Grew
  <2>4. Attempts = Len(policy.ladder)
    BY <2>1 DEF LadderInv, EscalationSound
  <2>5. ASSUME NEW i \in DOMAIN history', i > Len(history), NEW j \in DOMAIN history', j < i,
               history'[j].type \in Departed
        PROVE  history'[i].saw < j
    <3>1. j \in DOMAIN history /\ history[j].type \in Departed
      BY <1>t, <2>3, <2>5 DEF Grew
    <3>2. sweep[c].saw < j
      BY <2>1, <3>1 DEF LadderInv, SawSound
    <3> QED BY <2>2, <2>3, <2>5, <3>2
  <2>6. \A d \in SweepCalls : sweep'[d] = sweep[d] \/ sweep'[d] = Idle
    BY <1>t, <2>1
  <2>7. SlaSound' /\ BookedSound'
    BY <1>s, <1>k, <2>1, <2>3, <2>6 DEF LadderInv, SlaSound, Idle
  <2> QED BY <1>0, <1>t, <1>s, <2>1, <2>2, <2>3, <2>4, <2>5, <2>6, <2>7, LadderQuiet
<1>9. ASSUME NEW c \in SweepCalls, SweepFails(c) PROVE LadderInv'
  <2>1. /\ sweep' = [sweep EXCEPT ![c] = Idle]
        /\ UNCHANGED <<policy, now, history, shown, board>>
    BY <1>9 DEF SweepFails
  <2>2. Grew /\ \A i \in DOMAIN history' : ~(i > Len(history))
    BY <1>0, <2>1, SameLog
  <2>3. \A d \in SweepCalls : sweep'[d] = sweep[d] \/ sweep'[d] = Idle
    BY <1>t, <2>1
  <2>4. SlaSound'
    BY <1>s, <2>3 DEF LadderInv, SlaSound, Idle
  <2>5. BookedSound'
    BY <1>k, <2>1, <2>2
  <2> QED BY <1>0, <1>t, <1>s, <2>1, <2>2, <2>3, <2>4, <2>5, LadderQuiet
<1>10. CASE UNCHANGED watchVars
  <2>1. UNCHANGED <<policy, now, history, shown, board, sweep>>
    BY <1>10 DEF watchVars
  <2>2. Grew /\ \A i \in DOMAIN history' : ~(i > Len(history))
    BY <1>0, <2>1, SameLog
  <2>3. BookedSound' /\ SlaSound'
    BY <1>k, <2>1, <2>2 DEF LadderInv, SlaSound
  <2> QED BY <1>0, <1>t, <2>1, <2>2, <2>3, LadderQuiet
<1> QED BY <1>1, <1>2, <1>3, <1>4, <1>5, <1>6, <1>7, <1>8, <1>9, <1>10
  DEF WatchNext, SlaStep, LadderStep
-----------------------------------------------------------------------------
(* The ladder, from the first state.                                       *)

LEMMA LadderInit ==
  ASSUME WatchInit
  PROVE  LadderInv
<1>1. history = <<>> /\ now = 0 /\ shown = 0 /\ board = Fresh /\ policy \in Policies
      /\ sweep = [c \in SweepCalls |-> Idle] /\ sweepFaults = 0 /\ confirmed \in BOOLEAN
  BY DEF WatchInit
<1>2. DOMAIN history = {} /\ Len(history) = 0
  BY <1>1
<1>3. Chases = {} /\ \A c : RaisesOf(c) = {}
  BY <1>2 DEF Chases, RaisesOf
<1>4. WatchTypeOK
  <2>1. Len(policy.ladder) \in Nat
    BY <1>1 DEF IsPolicy
  <2>2. board \in [status : Statuses, open : SUBSET Codes]
    BY <1>1 DEF Fresh, Statuses
  <2>3. history \in Seq(Row)
    BY <1>1
  <2>4. sweep \in [SweepCalls -> SweepRow(Len(history))]
    BY <1>1, <1>2, <2>1 DEF Idle, SweepRow
  <2>5. now \in 0 .. MaxTime /\ shown \in 0 .. Len(history) /\ sweepFaults \in 0 .. MaxSweepFaults
    BY <1>1, <1>2
  <2>6. Seq(Row) = Seq([type : Milestones \cup {Requested, "shipment.exception_raised"},
                      arg : Codes \cup {None}, attempt : 0 .. Len(policy.ladder),
                      at : 0 .. MaxTime, saw : Nat])
    BY DEF Row, Types
  <2> QED BY <1>1, <2>2, <2>3, <2>4, <2>5, <2>6 DEF WatchTypeOK, SweepRow
<1>5. Attempts = 0 /\ Len(policy.ladder) \in Nat
  BY <1>3, <1>4, PolicySound, AttemptsFinite, FS_EmptySet
<1>6. \A c \in SweepCalls : sweep[c] = Idle
  BY <1>1
<1>7. \A c \in LadderCalls : ChaseSound(c) /\ EscalationSound(c) /\ SawSound(c)
  BY <1>6 DEF SweepCalls, ChaseSound, EscalationSound, SawSound, Idle
<1>8. AttemptsSound /\ BookedSound /\ SlaSound
  BY <1>1, <1>5, <1>6 DEF AttemptsSound, BookedSound, SlaSound, SweepCalls, Idle
<1>9. AskedInTurn /\ AskedInTime /\ ToldLast /\ NotSeenLeaving
  BY <1>3 DEF AskedInTurn, AskedInTime, ToldLast, NotSeenLeaving
<1> QED BY <1>4, <1>7, <1>8, <1>9 DEF LadderInv

\* Every variable of the two sweeps keeps its type: no attempt past the ladder's
\* last, and no call that saw more of the log than there is.
THEOREM WatchTypeCorrect == WatchSpec => []WatchTypeOK
<1>1. WatchInit => LadderInv
  BY LadderInit
<1>2. LadderInv /\ [WatchNext]_watchVars => LadderInv'
  BY LadderStepInv
<1>3. LadderInv => WatchTypeOK
  BY DEF LadderInv
<1> QED BY <1>1, <1>2, <1>3, PTL DEF WatchSpec

\* For any ladder, any number of concurrent calls, failures and reports: the
\* carrier is asked in order and after each wait, a person is told only after
\* the last attempt, and neither about a shipment the sweep was shown to leave.
THEOREM AskedInOrder == WatchSpec => []ChaseLadder
<1>1. WatchInit => LadderInv
  BY LadderInit
<1>2. LadderInv /\ [WatchNext]_watchVars => LadderInv'
  BY LadderStepInv
<1>3. LadderInv => ChaseLadder
  BY LadderParts DEF LadderInv
<1> QED BY <1>1, <1>2, <1>3, PTL DEF WatchSpec

-----------------------------------------------------------------------------
(* What a sweep repeats.                                                   *)

Cleared(c, i, m) == \E k \in i + 1 .. m : c \in Clears(history[k])

\* A code the board does not show open was cleared after each time it was raised.
BoardSound ==
  \A c \in Codes \ board.open : \A i \in RaisesOf(c) : i <= shown => Cleared(c, i, shown)

\* A code that a call is about to raise was not open on the board the call read.
CallSound(s) ==
  \A c \in sweep[s].codes : \A i \in RaisesOf(c) :
    i <= sweep[s].saw => Cleared(c, i, sweep[s].saw)

TellsRolled(s) == sweep[s].kind = "raise" => "BOOKING_ROLLED" \in sweep[s].codes

RaiseInv ==
  /\ WatchTypeOK /\ RepeatOnlyWhileBehind /\ BoardSound
  /\ \A s \in SweepCalls : CallSound(s)
  /\ \A s \in LadderCalls : TellsRolled(s)

\* Who may put an entry that raises a code on the log.
FromSweep(e) ==
  Raises(e) \in Codes =>
    e.saw = 0 \/ \E s \in SweepCalls : Raises(e) \in sweep[s].codes /\ e.saw = sweep[s].saw

LEMMA ClearedKept ==
  ASSUME WatchTypeOK, Grew
  PROVE  \A c : \A i, m \in Nat : m <= Len(history) /\ Cleared(c, i, m) => Cleared(c, i, m)'
<1> SUFFICES ASSUME NEW c, NEW i \in Nat, NEW m \in Nat, m <= Len(history), Cleared(c, i, m)
             PROVE  Cleared(c, i, m)'
  OBVIOUS
<1>1. PICK k \in i + 1 .. m : c \in Clears(history[k])
  BY DEF Cleared
<1>2. k \in DOMAIN history
  BY GrewFacts
<1>3. history'[k] = history[k]
  BY <1>2 DEF Grew
<1> QED BY <1>1, <1>3 DEF Cleared

LEMMA RaisesInLog ==
  ASSUME WatchTypeOK
  PROVE  \A c : \A i \in RaisesOf(c) : i \in DOMAIN history /\ i \in Nat /\ i >= 1 /\ i <= Len(history)
<1>1. DOMAIN history = 1 .. Len(history) /\ Len(history) \in Nat
  BY DEF WatchTypeOK
<1>2. \A c : \A i \in RaisesOf(c) : i \in DOMAIN history
  BY DEF RaisesOf
<1> QED BY <1>1, <1>2

\* Every step but the projector's.
LEMMA RaiseGrown ==
  ASSUME RaiseInv, WatchTypeOK', Grew, UNCHANGED <<shown, board>>,
         \A i \in DOMAIN history' : i > Len(history) => FromSweep(history'[i]),
         \A s \in SweepCalls :
            \/ sweep'[s] = sweep[s] \/ sweep'[s] = Idle
            \/ sweep'[s].codes \subseteq Codes \ board.open /\ sweep'[s].saw = shown,
         \A s \in LadderCalls : TellsRolled(s)'
  PROVE  RaiseInv'
<1>t. /\ WatchTypeOK /\ Len(history) \in Nat /\ shown \in Nat /\ shown <= Len(history)
      /\ \A s \in SweepCalls : sweep[s].saw \in Nat /\ sweep[s].saw <= Len(history)
                               /\ sweep[s].codes \subseteq Codes
  BY DEF RaiseInv, WatchTypeOK
<1>g. /\ \A c : \A i \in RaisesOf(c)' : i \in RaisesOf(c) \/ i > Len(history)
      /\ \A c : \A i \in RaisesOf(c)' : i \in Nat /\ i >= 1 /\ i \in DOMAIN history'
      /\ \A c : \A i, m \in Nat : m <= Len(history) /\ Cleared(c, i, m) => Cleared(c, i, m)'
  <2>1. \A c : \A i \in RaisesOf(c)' : i \in RaisesOf(c) \/ i > Len(history)
    BY <1>t, GrewFacts
  <2>2. \A c : \A i \in RaisesOf(c)' : i \in DOMAIN history'
    BY DEF RaisesOf
  <2>3. DOMAIN history' = 1 .. Len(history') /\ Len(history') \in Nat
    BY <1>t, GrewFacts
  <2>4. \A c : \A i \in RaisesOf(c)' : i \in Nat /\ i >= 1 /\ i \in DOMAIN history'
    BY <2>2, <2>3
  <2> QED BY <1>t, <2>1, <2>4, ClearedKept
<1>o. \A c : \A i \in RaisesOf(c) : i \in Nat /\ i >= 1 /\ i <= Len(history)
  BY <1>t, RaisesInLog
\* What was cleared up to a place of the old log still is.
<1>c. ASSUME NEW c, NEW m \in Nat, m <= Len(history),
             \A i \in RaisesOf(c) : i <= m => Cleared(c, i, m)
      PROVE  \A i \in RaisesOf(c)' : i <= m => Cleared(c, i, m)'
  <2> SUFFICES ASSUME NEW i \in RaisesOf(c)', i <= m PROVE Cleared(c, i, m)'
    OBVIOUS
  <2>1. i \in RaisesOf(c) /\ i \in Nat
    BY <1>c, <1>t, <1>g
  <2> QED BY <1>c, <1>g, <2>1
<1>1. BoardSound'
  <2>1. board'.open = board.open /\ shown' = shown
    OBVIOUS
  <2> SUFFICES ASSUME NEW c \in Codes \ board.open PROVE \A i \in RaisesOf(c)' : i <= shown => Cleared(c, i, shown)'
    BY <2>1 DEF BoardSound, Cleared
  <2>2. \A i \in RaisesOf(c) : i <= shown => Cleared(c, i, shown)
    BY DEF RaiseInv, BoardSound
  <2> QED BY <1>t, <1>c, <2>2
<1>2. ASSUME NEW s \in SweepCalls PROVE CallSound(s)'
  <2>1. CASE sweep'[s] = Idle
    BY <2>1 DEF CallSound, Idle
  <2>2. CASE sweep'[s] = sweep[s]
    <3> SUFFICES ASSUME NEW c \in sweep[s].codes
                 PROVE  \A i \in RaisesOf(c)' : i <= sweep[s].saw => Cleared(c, i, sweep[s].saw)'
      BY <2>2 DEF CallSound, Cleared
    <3> PICK m : m = sweep[s].saw
      OBVIOUS
    <3>1. m \in Nat /\ m <= Len(history)
      BY <1>t
    <3>2. \A i \in RaisesOf(c) : i <= m => Cleared(c, i, m)
      BY DEF RaiseInv, CallSound
    <3> QED BY <1>c, <2>2, <3>1, <3>2 DEF Cleared
  <2>3. CASE sweep'[s].codes \subseteq Codes \ board.open /\ sweep'[s].saw = shown
    BY <1>1, <2>3 DEF BoardSound, CallSound
  <2> QED BY <2>1, <2>2, <2>3
<1>3. RepeatOnlyWhileBehind'
  <2> SUFFICES ASSUME NEW c \in Codes, NEW i \in RaisesOf(c)', NEW j \in RaisesOf(c)', i < j,
                      \A k \in i + 1 .. j - 1 : c \notin Clears(history'[k])
               PROVE  history'[j].saw < i
    BY DEF RepeatOnlyWhileBehind
  <2>0. i \in Nat /\ j \in Nat /\ i >= 1 /\ j \in DOMAIN history'
    BY <1>g
  <2>1. CASE j \in RaisesOf(c)
    <3>1. i \in RaisesOf(c) /\ j <= Len(history)
      BY <1>t, <1>g, <1>o, <2>0, <2>1
    <3>2. \A k \in i + 1 .. j - 1 : k \in DOMAIN history /\ history'[k] = history[k]
      BY <1>t, <2>0, <3>1, GrewFacts DEF Grew
    <3>3. j \in DOMAIN history /\ history'[j] = history[j]
      BY <2>1 DEF RaisesOf, Grew
    <3>4. history[j].saw < i
      BY <2>1, <3>1, <3>2 DEF RaiseInv, RepeatOnlyWhileBehind
    <3> QED BY <3>3, <3>4
  <2>2. CASE j > Len(history)
    <3>1. Raises(history'[j]) = c
      BY DEF RaisesOf
    <3>2. CASE history'[j].saw = 0
      BY <2>0, <3>2
    <3>3. ASSUME NEW s \in SweepCalls, c \in sweep[s].codes, history'[j].saw = sweep[s].saw
          PROVE  history'[j].saw < i
      <4> PICK m : m = sweep[s].saw
        OBVIOUS
      <4>1. m \in Nat /\ m <= Len(history)
        BY <1>t
      <4>2. SUFFICES ASSUME i <= m PROVE FALSE
        BY <2>0, <3>3, <4>1
      <4>3. i \in RaisesOf(c)
        BY <1>t, <1>g, <2>0, <4>1, <4>2
      <4>4. Cleared(c, i, m)
        BY <3>3, <4>2, <4>3 DEF RaiseInv, CallSound
      <4>5. Cleared(c, i, m)'
        BY <1>g, <2>0, <4>1, <4>4
      <4>6. PICK k \in i + 1 .. m : c \in Clears(history'[k])
        BY <4>5 DEF Cleared
      <4>7. k \in i + 1 .. j - 1
        BY <1>t, <2>0, <2>2, <4>1, <4>6
      <4> QED BY <4>6, <4>7
    <3> QED BY <2>0, <2>2, <3>1, <3>2, <3>3 DEF FromSweep
  <2> QED BY <1>g, <2>1, <2>2
<1> QED BY <1>1, <1>2, <1>3 DEF RaiseInv

LEMMA RaiseProjected ==
  ASSUME RaiseInv, WatchTypeOK', Project
  PROVE  RaiseInv'
<1>t. /\ WatchTypeOK /\ Len(history) \in Nat /\ shown \in Nat /\ shown < Len(history)
      /\ shown' = shown + 1 /\ board' = ProjectEvent(board, history[shown + 1])
      /\ UNCHANGED <<history, sweep>>
  <2>1. WatchTypeOK
    BY DEF RaiseInv
  <2>2. Len(history) \in Nat /\ shown \in Nat
    BY <2>1 DEF WatchTypeOK
  <2> QED BY <2>1, <2>2 DEF Project
<1>1. BoardSound'
  <2> SUFFICES ASSUME NEW c \in Codes, c \notin board'.open, NEW i \in RaisesOf(c), i <= shown + 1
               PROVE  Cleared(c, i, shown + 1)
    BY <1>t DEF BoardSound, Cleared, RaisesOf
  <2> PICK n : n = shown + 1
    OBVIOUS
  <2>0. n \in Nat /\ i \in Nat
    BY <1>t, RaisesInLog
  <2>1. board'.open = (board.open \ Clears(history[n])) \cup ({Raises(history[n])} \ {None})
    BY <1>t DEF ProjectEvent, Open
  <2>2. i <= shown
    <3>1. Raises(history[i]) = c /\ c # None
      BY DEF RaisesOf, Codes, None
    <3>2. i # n
      BY <2>1, <3>1
    <3> QED BY <1>t, <2>0, <3>2
  <2>3. CASE c \in Clears(history[n])
    BY <1>t, <2>0, <2>2, <2>3 DEF Cleared
  <2>4. CASE c \notin Clears(history[n])
    <3>1. c \notin board.open
      BY <2>1, <2>4
    <3>2. Cleared(c, i, shown)
      BY <2>2, <3>1 DEF RaiseInv, BoardSound
    <3> QED BY <1>t, <2>0, <3>2 DEF Cleared
  <2> QED BY <2>3, <2>4
<1>2. RepeatOnlyWhileBehind'
  BY <1>t DEF RaiseInv, RepeatOnlyWhileBehind, RaisesOf
<1>3. (\A s \in SweepCalls : CallSound(s))' /\ (\A s \in LadderCalls : TellsRolled(s))'
  BY <1>t DEF RaiseInv, CallSound, TellsRolled, Cleared, RaisesOf
<1> QED BY <1>1, <1>2, <1>3 DEF RaiseInv

LEMMA RaiseStepInv ==
  ASSUME RaiseInv, [WatchNext]_watchVars
  PROVE  RaiseInv'
<1>0. WatchTypeOK /\ WatchTypeOK'
  BY WatchTypeStep DEF RaiseInv
<1>t. /\ Len(history) \in Nat /\ shown \in 0 .. Len(history)
      /\ DOMAIN history = 1 .. Len(history) /\ history \in Seq(Row)
      /\ sweep \in [SweepCalls -> SweepRow(Len(history))]
  BY <1>0 DEF WatchTypeOK, Row, Types, SweepRow
<1>s. SlaCalls \subseteq SweepCalls /\ LadderCalls \subseteq SweepCalls /\ SlaCalls \cap LadderCalls = {}
  BY DEF SweepCalls
<1>r. \A s \in LadderCalls : TellsRolled(s)
  BY DEF RaiseInv
\* The calls that decide nothing in this step.
<1>i. ASSUME NEW c \in SweepCalls, sweep' = [sweep EXCEPT ![c] = Idle]
      PROVE  /\ \A s \in SweepCalls : sweep'[s] = sweep[s] \/ sweep'[s] = Idle
             /\ \A s \in LadderCalls : TellsRolled(s)'
  <2>1. \A s \in SweepCalls : sweep'[s] = sweep[s] \/ sweep'[s] = Idle
    BY <1>t, <1>i
  <2> QED BY <1>s, <1>r, <2>1 DEF TellsRolled, Idle
\* One entry is appended.
<1>a. ASSUME NEW e, history' = Append(history, e), policy' = policy
      PROVE  Grew /\ \A i \in DOMAIN history' : i > Len(history) => history'[i] = e
  <2>1. history' \in Seq(Row)' /\ Row' = Row
    BY <1>0, <1>a DEF WatchTypeOK, Row, Types
  <2>2. /\ Len(history') = Len(history) + 1 /\ DOMAIN history' = 1 .. Len(history) + 1
        /\ \A i \in DOMAIN history : history'[i] = history[i]
        /\ history'[Len(history) + 1] = e
    BY <1>t, <1>a
  <2> QED BY <1>t, <1>a, <2>1, <2>2 DEF Grew
<1>1. CASE Tick
  <2>1. UNCHANGED <<policy, history, shown, board, sweep>>
    BY <1>1 DEF Tick
  <2>2. Grew /\ \A i \in DOMAIN history' : ~(i > Len(history))
    BY <1>0, <2>1, SameLog
  <2>3. \A s \in LadderCalls : TellsRolled(s)'
    BY <1>r, <2>1 DEF TellsRolled
  <2> QED BY <1>0, <2>1, <2>2, <2>3, RaiseGrown
<1>2. CASE Report
  <2>1. PICK t \in Milestones, at \in 0 .. now : history' = Append(history, Entry(t, None, 0, at, 0))
    BY <1>2 DEF Report
  <2>2. UNCHANGED <<policy, shown, board, sweep>>
    BY <1>2 DEF Report
  <2>3. Grew /\ \A i \in DOMAIN history' : i > Len(history) => history'[i] = Entry(t, None, 0, at, 0)
    BY <1>a, <2>1, <2>2
  <2>4. FromSweep(Entry(t, None, 0, at, 0))
    BY DEF FromSweep, Entry
  <2>5. \A s \in LadderCalls : TellsRolled(s)'
    BY <1>r, <2>2 DEF TellsRolled
  <2>6. \A i \in DOMAIN history' : i > Len(history) => FromSweep(history'[i])
    BY <2>3, <2>4, Zenon
  <2> QED BY <1>0, <2>2, <2>3, <2>5, <2>6, RaiseGrown
<1>3. CASE Project
  BY <1>0, <1>3, RaiseProjected
<1>4. ASSUME NEW c \in SlaCalls, SlaRead(c) PROVE RaiseInv'
  <2>1. /\ sweep' = [sweep EXCEPT ![c] =
                      [kind |-> "raise", codes |-> Breaches, attempt |-> 0, saw |-> shown]]
        /\ UNCHANGED <<policy, history, shown, board>>
    BY <1>4 DEF SlaRead
  <2>2. Grew /\ \A i \in DOMAIN history' : ~(i > Len(history))
    BY <1>0, <2>1, SameLog
  <2>3. Breaches \subseteq Codes \ board.open
    BY BreachCodes DEF Breaches, DetectBreaches
  <2>4. /\ sweep'[c].codes = Breaches /\ sweep'[c].saw = shown
        /\ \A s \in SweepCalls : s # c => sweep'[s] = sweep[s]
    BY <1>t, <1>s, <2>1
  <2>5. \A s \in LadderCalls : TellsRolled(s)'
    BY <1>r, <1>s, <2>4 DEF TellsRolled
  <2> QED BY <1>0, <2>1, <2>2, <2>3, <2>4, <2>5, RaiseGrown
<1>5. ASSUME NEW c \in SlaCalls, SlaAppend(c) PROVE RaiseInv'
  <2>1. PICK order \in [1 .. Cardinality(sweep[c].codes) -> sweep[c].codes] :
          history' = history \o [i \in DOMAIN order |->
            Entry("shipment.exception_raised", order[i], 0, 0, sweep[c].saw)]
    BY <1>5, Zenon DEF SlaAppend
  <2>2. /\ sweep' = [sweep EXCEPT ![c] = Idle]
        /\ UNCHANGED <<policy, shown, board>>
    BY <1>5 DEF SlaAppend
  <2>3. /\ history' \in Seq(Row) /\ Len(history') >= Len(history)
        /\ \A i \in DOMAIN history : history'[i] = history[i]
        /\ \A i \in DOMAIN history' : i > Len(history) =>
             \E k \in sweep[c].codes :
               history'[i] = Entry("shipment.exception_raised", k, 0, 0, sweep[c].saw)
    BY <1>0, <1>s, <2>1, <2>2, SlaAppended
  <2>4. Grew
    BY <2>2, <2>3, <1>t, <1>0 DEF Grew, WatchTypeOK
  <2>5. \A k \in sweep[c].codes :
          FromSweep(Entry("shipment.exception_raised", k, 0, 0, sweep[c].saw))
    BY <1>s DEF FromSweep, Entry, Raises
  <2>6. \A i \in DOMAIN history' : i > Len(history) => FromSweep(history'[i])
    BY <2>3, <2>5, Zenon
  <2> QED BY <1>0, <1>s, <1>i, <2>2, <2>4, <2>6, RaiseGrown
<1>6. ASSUME NEW c \in LadderCalls, LadderRead(c) PROVE RaiseInv'
  <2>1. UNCHANGED <<policy, history, shown, board>>
    BY <1>6 DEF LadderRead
  <2>2. Grew /\ \A i \in DOMAIN history' : ~(i > Len(history))
    BY <1>0, <2>1, SameLog
  <2>3. /\ \A s \in SweepCalls : s # c => sweep'[s] = sweep[s]
        /\ sweep'[c].codes \subseteq Codes \ board.open /\ sweep'[c].saw = shown
        /\ sweep'[c].kind = "raise" => "BOOKING_ROLLED" \in sweep'[c].codes
    <3>1. CASE sweep' = [sweep EXCEPT ![c] =
                 [kind |-> "chase", codes |-> {}, attempt |-> Attempts + 1, saw |-> shown]]
      BY <1>t, <1>s, <3>1
    <3>2. CASE EscalationDue /\ sweep' = [sweep EXCEPT ![c] =
                 [kind |-> "raise", codes |-> {"BOOKING_ROLLED"}, attempt |-> 0, saw |-> shown]]
      BY <1>t, <1>s, <3>2 DEF EscalationDue, Codes
    <3> QED BY <1>6, <3>1, <3>2 DEF LadderRead
  <2>4. \A s \in LadderCalls : TellsRolled(s)'
    BY <1>r, <1>s, <2>3 DEF TellsRolled
  <2> QED BY <1>0, <2>1, <2>2, <2>3, <2>4, RaiseGrown
<1>7. ASSUME NEW c \in LadderCalls, ChaseAppend(c) PROVE RaiseInv'
  <2>1. /\ sweep' = [sweep EXCEPT ![c] = Idle]
        /\ history' = IF Sent(sweep[c].attempt) THEN history
                      ELSE Append(history, Entry(Requested, None, sweep[c].attempt, now, sweep[c].saw))
        /\ UNCHANGED <<policy, shown, board>>
    BY <1>7, Zenon DEF ChaseAppend
  <2>2. Grew /\ \A i \in DOMAIN history' : i > Len(history) => FromSweep(history'[i])
    <3>1. CASE history' = history
      BY <1>0, <2>1, <3>1, SameLog
    <3>2. CASE history' = Append(history, Entry(Requested, None, sweep[c].attempt, now, sweep[c].saw))
      <4>1. FromSweep(Entry(Requested, None, sweep[c].attempt, now, sweep[c].saw))
        BY DEF FromSweep, Entry, Raises, Requested, Codes, None
      <4>2. /\ Grew
            /\ \A i \in DOMAIN history' : i > Len(history) =>
                 history'[i] = Entry(Requested, None, sweep[c].attempt, now, sweep[c].saw)
        BY <1>a, <2>1, <3>2
      <4> QED BY <4>1, <4>2, Zenon
    <3> QED BY <2>1, <3>1, <3>2
  <2> QED BY <1>0, <1>s, <1>i, <2>1, <2>2, RaiseGrown
<1>8. ASSUME NEW c \in LadderCalls, EscalationAppend(c) PROVE RaiseInv'
  <2> DEFINE e == Entry("shipment.exception_raised", "BOOKING_ROLLED", 0, 0, sweep[c].saw)
  <2>1. /\ sweep[c].kind = "raise" /\ sweep' = [sweep EXCEPT ![c] = Idle]
        /\ history' = Append(history, e) /\ UNCHANGED <<policy, shown, board>>
    BY <1>8 DEF EscalationAppend
  <2>2. FromSweep(e)
    BY <1>r, <1>s, <2>1 DEF FromSweep, Entry, Raises, TellsRolled
  <2>3. Grew /\ \A i \in DOMAIN history' : i > Len(history) => history'[i] = e
    BY <1>a, <2>1
  <2> HIDE DEF e
  <2>4. \A i \in DOMAIN history' : i > Len(history) => FromSweep(history'[i])
    BY <2>2, <2>3, Zenon
  <2> QED BY <1>0, <1>s, <1>i, <2>1, <2>3, <2>4, RaiseGrown
<1>9. ASSUME NEW c \in SweepCalls, SweepFails(c) PROVE RaiseInv'
  <2>1. /\ sweep' = [sweep EXCEPT ![c] = Idle]
        /\ UNCHANGED <<policy, history, shown, board>>
    BY <1>9 DEF SweepFails
  <2>2. Grew /\ \A i \in DOMAIN history' : ~(i > Len(history))
    BY <1>0, <2>1, SameLog
  <2> QED BY <1>0, <1>i, <2>1, <2>2, RaiseGrown
<1>10. CASE UNCHANGED watchVars
  <2>1. UNCHANGED <<policy, history, shown, board, sweep>>
    BY <1>10 DEF watchVars
  <2>2. Grew /\ \A i \in DOMAIN history' : ~(i > Len(history))
    BY <1>0, <2>1, SameLog
  <2>3. \A s \in LadderCalls : TellsRolled(s)'
    BY <1>r, <2>1 DEF TellsRolled
  <2> QED BY <1>0, <2>1, <2>2, <2>3, RaiseGrown
<1> QED BY <1>1, <1>2, <1>3, <1>4, <1>5, <1>6, <1>7, <1>8, <1>9, <1>10
  DEF WatchNext, SlaStep, LadderStep

\* However many sweeps run at once, and however far the projector is behind, a
\* code is raised twice in a row only by a sweep that read the board before the
\* first was on it.
THEOREM RepeatedOnlyUnseen == WatchSpec => []RepeatOnlyWhileBehind
<1>1. WatchInit => RaiseInv
  <2> SUFFICES ASSUME WatchInit PROVE RaiseInv
    OBVIOUS
  <2>1. WatchTypeOK
    BY LadderInit DEF LadderInv
  <2>2. \A s \in SweepCalls : sweep[s] = Idle
    BY DEF WatchInit
  <2>3. \A c : RaisesOf(c) = {}
    BY DEF WatchInit, RaisesOf
  <2>4. RepeatOnlyWhileBehind /\ BoardSound
    BY <2>3 DEF RepeatOnlyWhileBehind, BoardSound
  <2>5. (\A s \in SweepCalls : CallSound(s)) /\ \A s \in LadderCalls : TellsRolled(s)
    BY <2>2 DEF CallSound, TellsRolled, SweepCalls, Idle
  <2> QED BY <2>1, <2>4, <2>5 DEF RaiseInv
<1>2. RaiseInv /\ [WatchNext]_watchVars => RaiseInv'
  BY RaiseStepInv
<1>3. RaiseInv => RepeatOnlyWhileBehind
  BY DEF RaiseInv
<1> QED BY <1>1, <1>2, <1>3, PTL DEF WatchSpec

-----------------------------------------------------------------------------
(* The screening of parties.                                               *)

HIDE WatchAssumption

\* What is stored of a party, and every answer on its way to be, is what the lists say
\* of it, or leaves it to a person.
Agreed(p) ==
  /\ verdict[p] \in {listed[p], "REVIEW", "UNSCREENED", "none"}
  /\ \A r \in Runs \cup Askers :
       At(r, "store") /\ Head(request[r].batch) = p => request[r].answer \in {listed[p], "REVIEW"}

Entries == [pc : {"idle", "ask", "store", "log"}, batch : Seq(Parties),
            answer : Verdicts \cup {"none"}]

ScreenTypeOK ==
  /\ cap \in Caps
  /\ listed \in [Parties -> {"CLEAR", "HIT"}]
  /\ verdict \in [Parties -> Verdicts \cup {"UNSCREENED", "none"}]
  /\ request \in [Runs \cup Askers -> Entries]
  /\ \A r \in Runs \cup Askers :
       /\ ~At(r, "idle") => request[r].batch # <<>>
       /\ request[r].pc \in {"store", "log"} => request[r].answer # "none"

\* A batch is not empty, as there is a party due.
LEMMA BatchTaken ==
  ASSUME RescreenAssumption, ScreenTypeOK, IsFiniteSet(Parties), Due # {}, NEW b \in Batches
  PROVE  b \in Seq(Parties) /\ b # <<>>
<1>1. PICK S \in SUBSET Due : b \in SetToSeqs(S)
  BY DEF Batches
<1>2. IsFiniteSet(Due) /\ IsFiniteSet(S) /\ Due \subseteq Parties
  BY FS_Subset DEF Due
<1>3. Cardinality(S) \in Nat /\ Cardinality(Due) \in Nat /\ Cardinality(Due) # 0
  BY <1>2, FS_CardinalityType, FS_EmptySet
<1>4. b \in [1 .. Cardinality(S) -> S]
  BY <1>1 DEF SetToSeqs
<1>5. cap \in Nat \ {0}
  BY DEF RescreenAssumption, ScreenTypeOK
<1>6. Len(b) # 0
  BY <1>3, <1>5 DEF Batches
<1>7. b \in Seq(Parties)
  <2> DEFINE n == Cardinality(S)
  <2>1. n \in Nat /\ b \in [1 .. n -> Parties]
    BY <1>2, <1>3, <1>4
  <2> HIDE DEF n
  <2> QED BY <2>1
<1> QED BY <1>6, <1>7

\* What a step does to its request, to verdicts and to lists.
LEMMA ScreenSteps ==
  ASSUME RescreenAssumption, IsFiniteSet(Parties), ScreenTypeOK, [ScreenNext]_screenVars
  PROVE  /\ ScreenTypeOK'
         /\ \A p \in Parties : Agreed(p) /\ listed'[p] = listed[p] => Agreed(p)'
<1> DEFINE Good == /\ ScreenTypeOK'
                   /\ \A p \in Parties : Agreed(p) /\ listed'[p] = listed[p] => Agreed(p)'
<1>0. /\ cap \in Caps /\ listed \in [Parties -> {"CLEAR", "HIT"}]
      /\ verdict \in [Parties -> Verdicts \cup {"UNSCREENED", "none"}]
      /\ request \in [Runs \cup Askers -> Entries]
  BY DEF ScreenTypeOK
<1>1. ASSUME UNCHANGED screenVars PROVE Good
  BY <1>1 DEF screenVars, ScreenTypeOK, Agreed, At
<1>2. ASSUME NEW r \in Runs \cup Askers, NEW entry \in Entries, Moves(r, entry),
             entry.pc = "idle" \/ entry.batch # <<>>,
             entry.pc \in {"store", "log"} => entry.answer # "none",
             cap' = cap, listed' = listed,
             verdict' \in [Parties -> Verdicts \cup {"UNSCREENED", "none"}]
      PROVE  /\ ScreenTypeOK'
             /\ request'[r] = entry /\ \A s \in (Runs \cup Askers) \ {r} : request'[s] = request[s]
  <2>1. /\ request'[r] = entry /\ \A s \in (Runs \cup Askers) \ {r} : request'[s] = request[s]
        /\ request' \in [Runs \cup Askers -> Entries]
    BY <1>0, <1>2 DEF Moves
  <2> QED BY <1>0, <1>2, <2>1 DEF ScreenTypeOK, At
<1>3. ASSUME NEW r \in Runs \cup Askers, NEW entry \in Entries, Moves(r, entry), entry.pc # "store",
             entry.pc = "idle" \/ entry.batch # <<>>,
             entry.pc \in {"store", "log"} => entry.answer # "none",
             cap' = cap, listed' = listed,
             verdict' \in [Parties -> Verdicts \cup {"UNSCREENED", "none"}],
             \A p \in Parties : verdict'[p] \in {verdict[p], "UNSCREENED"}
      PROVE  Good
  <2>1. /\ ScreenTypeOK'
        /\ request'[r] = entry /\ \A s \in (Runs \cup Askers) \ {r} : request'[s] = request[s]
    BY <1>2, <1>3
  <2>2. ASSUME NEW p \in Parties, Agreed(p) PROVE Agreed(p)'
    BY <1>3, <2>1, <2>2 DEF Agreed, At
  <2> QED BY <2>1, <2>2
<1>4. ASSUME NEW r \in Askers, NEW p \in Parties, Create(r, p) \/ AskAtBooking(r, p) PROVE Good
  <2> DEFINE entry == [pc |-> "ask", batch |-> <<p>>, answer |-> "none"]
  <2>1. entry \in Entries /\ entry.pc = "ask" /\ entry.batch # <<>>
    BY DEF Entries
  <2>2. Moves(r, entry) /\ cap' = cap /\ listed' = listed
    BY <1>4 DEF Create, AskAtBooking
  <2>3. /\ verdict' \in [Parties -> Verdicts \cup {"UNSCREENED", "none"}]
        /\ \A q \in Parties : verdict'[q] \in {verdict[q], "UNSCREENED"}
    BY <1>0, <1>4 DEF Create, AskAtBooking
  <2> HIDE DEF Good, entry
  <2> QED BY <1>3, <2>1, <2>2, <2>3
<1>5. ASSUME NEW r \in Runs, StartSweep(r) PROVE Good
  <2>1. PICK b \in Batches : Moves(r, [pc |-> "ask", batch |-> b, answer |-> "none"])
    BY <1>5 DEF StartSweep
  <2>2. b \in Seq(Parties) /\ b # <<>>
    BY <1>5, BatchTaken DEF StartSweep
  <2> DEFINE entry == [pc |-> "ask", batch |-> b, answer |-> "none"]
  <2>3. entry \in Entries /\ entry.pc = "ask" /\ entry.batch # <<>>
    BY <2>2 DEF Entries
  <2>4. Moves(r, entry) /\ cap' = cap /\ verdict' = verdict /\ listed' = listed
    BY <1>5, <2>1 DEF StartSweep
  <2> HIDE DEF Good, entry
  <2> QED BY <1>0, <1>3, <2>3, <2>4
<1>6. ASSUME NEW r \in Runs \cup Askers, LogVerdict(r) \/ RequestFails(r) PROVE Good
  <2>1. NoRequest \in Entries /\ NoRequest.pc = "idle"
    BY DEF NoRequest, Entries
  <2>2. cap' = cap /\ verdict' = verdict /\ listed' = listed
    BY <1>6 DEF LogVerdict, RequestFails
  <2>3. CASE Moves(r, NoRequest)
    <3> HIDE DEF Good
    <3> QED BY <1>0, <1>3, <2>1, <2>2, <2>3
  <2>4. CASE LogVerdict(r) /\ ~Moves(r, NoRequest)
    <3> DEFINE rest == Tail(request[r].batch)
               entry == [pc |-> "ask", batch |-> rest, answer |-> "none"]
    <3>1. At(r, "log") /\ rest # <<>> /\ Moves(r, entry)
      BY <2>4 DEF LogVerdict
    <3>2. request[r].batch \in Seq(Parties) /\ request[r].batch # <<>>
      BY <1>0, <3>1 DEF ScreenTypeOK, At, Entries
    <3>3. entry \in Entries /\ entry.pc = "ask" /\ entry.batch # <<>>
      BY <3>1, <3>2 DEF Entries
    <3> HIDE DEF Good, entry
    <3> QED BY <1>0, <1>3, <2>2, <3>1, <3>3
  <2> QED BY <1>6, <2>3, <2>4 DEF RequestFails
<1>7. ASSUME NEW r \in Runs \cup Askers, Ask(r) PROVE Good
  <2> DEFINE p == Head(request[r].batch)
  <2>1. /\ request[r] \in Entries /\ request[r].batch \in Seq(Parties) /\ request[r].batch # <<>>
    BY <1>0, <1>7 DEF Entries, Ask, ScreenTypeOK, At
  <2>2. p \in Parties
    BY <2>1
  <2>3. PICK answer \in {listed[p], "REVIEW"} :
          Moves(r, [request[r] EXCEPT !.pc = "store", !.answer = answer])
    BY <1>7 DEF Ask
  <2> DEFINE entry == [request[r] EXCEPT !.pc = "store", !.answer = answer]
  <2>4. answer \in Verdicts /\ answer # "none"
    BY <1>0, <2>2, <2>3 DEF Verdicts
  <2>5. entry \in Entries /\ entry.pc = "store" /\ entry.answer = answer /\ entry.batch = request[r].batch
    BY <2>1, <2>4 DEF Entries
  <2>6. cap' = cap /\ verdict' = verdict /\ listed' = listed
    BY <1>7 DEF Ask
  <2> HIDE DEF p, entry
  <2>7. /\ ScreenTypeOK'
        /\ request'[r] = entry /\ \A s \in (Runs \cup Askers) \ {r} : request'[s] = request[s]
    BY <1>0, <1>2, <2>1, <2>3, <2>4, <2>5, <2>6 DEF entry
  <2>8. ASSUME NEW q \in Parties, Agreed(q) PROVE Agreed(q)'
    BY <2>3, <2>5, <2>6, <2>7, <2>8 DEF Agreed, At, p
  <2> QED BY <2>7, <2>8
<1>8. ASSUME NEW r \in Runs \cup Askers, StoreVerdict(r) PROVE Good
  <2> DEFINE p == Head(request[r].batch)
             entry == [request[r] EXCEPT !.pc = "log"]
  <2>1. /\ request[r] \in Entries /\ request[r].batch \in Seq(Parties) /\ request[r].batch # <<>>
        /\ request[r].answer \in Verdicts /\ At(r, "store")
    BY <1>0, <1>8 DEF Entries, StoreVerdict, ScreenTypeOK, At
  <2>2. p \in Parties
    BY <2>1
  <2>3. entry \in Entries /\ entry.pc = "log" /\ entry.batch # <<>> /\ entry.answer # "none"
    BY <2>1 DEF Entries, Verdicts
  <2>4. /\ Moves(r, entry) /\ cap' = cap /\ listed' = listed
        /\ verdict' = [verdict EXCEPT ![p] = request[r].answer]
    BY <1>8 DEF StoreVerdict
  <2> HIDE DEF p, entry
  <2>5. verdict' \in [Parties -> Verdicts \cup {"UNSCREENED", "none"}]
    BY <1>0, <2>1, <2>2, <2>4
  <2>6. /\ ScreenTypeOK'
        /\ request'[r] = entry /\ \A s \in (Runs \cup Askers) \ {r} : request'[s] = request[s]
    BY <1>2, <2>3, <2>4, <2>5
  <2>7. ASSUME NEW q \in Parties, Agreed(q) PROVE Agreed(q)'
    <3>1. verdict'[q] = IF q = p THEN request[r].answer ELSE verdict[q]
      BY <1>0, <2>4
    <3>2. q = p => request[r].answer \in {listed[q], "REVIEW"}
      BY <2>1, <2>7 DEF Agreed, p
    <3> QED BY <2>3, <2>4, <2>6, <2>7, <3>1, <3>2 DEF Agreed, At
  <2> QED BY <2>6, <2>7
<1>9. ASSUME (\E p \in Parties : ListMoves(p)) \/ Day PROVE Good
  <2>1. verdict' = verdict /\ request' = request /\ cap' = cap
    BY <1>9 DEF ListMoves, Day
  <2>2. listed' \in [Parties -> {"CLEAR", "HIT"}]
    BY <1>0, <1>9 DEF ListMoves, Day
  <2> QED BY <1>0, <2>1, <2>2 DEF ScreenTypeOK, Agreed, At
<1> HIDE DEF Good
<1>10. ASSUME NEW r \in Runs \cup Askers, RequestStep(r) \/ RequestFails(r) PROVE Good
  BY <1>6, <1>7, <1>8, <1>10 DEF RequestStep
<1>11. ASSUME ScreenNext PROVE Good
  BY <1>4, <1>5, <1>9, <1>10, <1>11 DEF ScreenNext
<1>12. Good
  BY <1>1, <1>11
<1> QED BY <1>12 DEF Good

\* As long as the lists say the same of a party, what is on file agrees with them once it
\* does and no older answer is on its way: no sweep, booking, failure or overlap brings a
\* stale verdict back.
THEOREM AgreementStays ==
  ASSUME IsFiniteSet(Parties)
  PROVE  ScreenSpec => [][\A p \in Parties : Agreed(p) /\ listed'[p] = listed[p] => Agreed(p)']_screenVars
<1>1. ScreenInit => ScreenTypeOK
  BY DEF ScreenInit, ScreenTypeOK, NoRequest, Entries, Verdicts, At
<1>2. ScreenTypeOK /\ [ScreenNext]_screenVars => ScreenTypeOK'
  BY ScreenSteps, RescreenAssumption
<1>3. ScreenTypeOK /\ [ScreenNext]_screenVars
        => [\A p \in Parties : Agreed(p) /\ listed'[p] = listed[p] => Agreed(p)']_screenVars
  BY ScreenSteps, RescreenAssumption
<1> QED BY <1>1, <1>2, <1>3, PTL DEF ScreenSpec
=============================================================================
