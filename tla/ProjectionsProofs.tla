-------------------------- MODULE ProjectionsProofs --------------------------
(***************************************************************************)
(* Proofs about the handlers with their statements and transactions.       *)
(*                                                                         *)
(* They implement the dispatcher that knows of a handler only that it has  *)
(* processed an event, so what is proved of the dispatcher holds of the    *)
(* projections.  SpineInv adds to the dispatcher's invariant where each    *)
(* instance stands inside a handler; three invariants rest on it:          *)
(* OnceInv, that a row more of a charge or of an exception's code is one   *)
(* instance less that goes on to write it; BooksInv, that what the ledger  *)
(* sink has left is all that is missing; and CrossInv, that the tables are *)
(* the replay of what lies behind the watermark, up to what an event ahead *)
(* of it will settle and to the parts that crossed instances have left in  *)
(* doubt.  All are of any number of instances.                             *)
(***************************************************************************)
EXTENDS Projections, EventDispatcherProofs, Sums

USE SpineAssumption

\* A step of a handler is the dispatcher's Handle when it is the last one, a
\* writer's step when it stamps or commits a charge, and else no step at all.
LEMMA HandlerStepMaps ==
  ASSUME NEW d \in Dispatchers, HandlerStep(d)
  PROVE  [Next]_vars
<1>1. ASSUME SetStatus(d) PROVE UNCHANGED vars
  BY <1>1 DEF SetStatus, Begin
<1>2. ASSUME Clear(d) PROVE UNCHANGED vars
  BY <1>2 DEF Clear
<1>3. ASSUME LookForOpen(d) PROVE UNCHANGED vars
  BY <1>3 DEF LookForOpen
<1>4. ASSUME Raise(d) PROVE Handle(d)
  BY <1>4 DEF Raise
<1>5. ASSUME StartAccrual(d) PROVE UNCHANGED vars
  BY <1>5 DEF StartAccrual, Begin
<1>6. ASSUME InsertCharge(d) PROVE WriterStamp(d)
  BY <1>6 DEF InsertCharge
<1>7. ASSUME CommitCharge(d) PROVE WriterCommit(d)
  BY <1>7 DEF CommitCharge, CommitRows
<1>8. ASSUME StartLedger(d) PROVE UNCHANGED vars
  BY <1>8 DEF StartLedger, Begin
<1>9. ASSUME InsertLedger(d) PROVE UNCHANGED vars
  BY <1>9 DEF InsertLedger
<1>10. ASSUME Return(d) PROVE Handle(d)
  BY <1>10 DEF Return
<1> QED
  BY <1>1, <1>2, <1>3, <1>4, <1>5, <1>6, <1>7, <1>8, <1>9, <1>10
     DEF HandlerStep, Next, TickStep, WriterStep

\* Every step of the handlers, of the tick around them and of the services is a step of
\* the dispatcher or none.
LEMMA SpineStepMaps == SpineNext => [Next]_vars
<1> SUFFICES ASSUME SpineNext PROVE [Next]_vars
  OBVIOUS
<1>1. ASSUME NEW w \in Outside,
             Arrive(w) \/ ArrivalCommits(w) \/ ArrivalRollsBack(w)
      PROVE  [Next]_vars
  BY <1>1 DEF Outside, Arrive, ArrivalCommits, ArrivalRollsBack, Next, WriterStep
<1>2. ASSUME NEW d \in Dispatchers, Around(d) PROVE [Next]_vars
  BY <1>2 DEF Around, Next, TickStep
<1>3. ASSUME NEW d \in Dispatchers, HandlerStep(d) PROVE [Next]_vars
  BY <1>3, HandlerStepMaps
<1>4. ASSUME NEW d \in Dispatchers, OrphanRollsBack(d) \/ OrphanCommits(d)
      PROVE  [Next]_vars
  BY <1>4 DEF OrphanRollsBack, OrphanCommits, CommitRows, Next, WriterStep
<1>5. ASSUME NEW d \in Dispatchers, TickFault(d) PROVE [Next]_vars
  BY <1>5 DEF TickFault, Next
<1> QED
  BY <1>1, <1>2, <1>3, <1>4, <1>5 DEF SpineNext, SpineTick

\* Every behaviour of the projections is a behaviour of the dispatcher: the
\* handlers' intermediate statements and the billing handler's own transactions
\* do nothing the dispatcher's specification does not allow.
THEOREM SpineRefinesDispatcher == SpineSpec => Spec
<1>1. SpineInit => Init
  BY DEF SpineInit
<1>2. [SpineNext]_spineVars => [Next]_vars
  BY SpineStepMaps DEF spineVars
<1> QED
  BY <1>1, <1>2, PTL DEF SpineSpec, Spec

\* No projection's watermark is ever past an event it has not processed, the
\* charge.accrued events that one of the handlers itself appends included.
THEOREM SpineWatermarkIsSound == SpineSpec => []WatermarkSound
BY SpineRefinesDispatcher, WatermarkIsSound, PTL
-----------------------------------------------------------------------------
(* Types.                                                                  *)

\* What an event can be; the handlers find their work in it.
Recordable == {NoEvent} \cup Arrivals \cup {Accrued(c) : c \in Charges}

\* The work a handler finds in an event is of its own kind.
LEMMA WorkType ==
  ASSUME NEW e \in Recordable
  PROVE  /\ Clears(e) \subseteq Codes
         /\ Raises(e) \in Codes \cup {None}
         /\ AccrualOf(e) \subseteq Charges
         /\ Mapped(e) \subseteq LedgerTypes
         /\ StatusAfter(e) \in Statuses \cup {None}
<1>1. Clears(e) \subseteq Codes /\ Raises(e) \in Codes \cup {None}
  <2>1. CASE e \in Arrivals
    BY <2>1
  <2>2. CASE e = NoEvent
    BY <2>2 DEF NoEvent, Plain, None, Clears, Raises
  <2>3. CASE \E c \in Charges : e = Accrued(c)
    BY <2>3 DEF Accrued, Clears, Raises
  <2> QED BY <2>1, <2>2, <2>3 DEF Recordable
<1>2. AccrualOf(e) \subseteq Charges
  BY DEF AccrualOf, Charges
<1>3. Mapped(e) \subseteq LedgerTypes
  BY DEF Mapped, LedgerTypes
<1>4. StatusAfter(e) \in Statuses \cup {None}
  BY DEF StatusAfter, Statuses
<1> QED BY <1>1, <1>2, <1>3, <1>4


-----------------------------------------------------------------------------
(* Where an instance stands: what it has left to write belongs to the      *)
(* handler it is running, and it has a transaction open only between the   *)
(* insert of a charge and its commit, or after a fault.                    *)

Work(h) == CASE h = Lifecycle -> Codes [] h = Billing -> Charges [] OTHER -> LedgerTypes

WorkSound(d) ==
  /\ step[d] # "begin" => pc[d] = "handle" /\ todo[d] \subseteq Work(cur[d])
  /\ step[d] = "raise" => cur[d] = Lifecycle
  /\ step[d] = "commit" => cur[d] = Billing
  /\ pc[d] # "idle" /\ step[d] # "commit" => open[d] = {}
  /\ \A q, r \in open[d] : q = r

SpineInv == DispatchInv /\ SpineTypeOK /\ \A d \in Dispatchers : WorkSound(d)

\* What a transaction adds to the rows of a charge is a number.
LEMMA AddedRows ==
  ASSUME TypeOK, NEW w \in Writers, NEW c
  PROVE  /\ IsFiniteSet({q \in open[w] : event[q] = Accrued(c)})
         /\ Cardinality({q \in open[w] : event[q] = Accrued(c)}) \in Nat
<1>1. open[w] \subseteq 1 .. clock /\ clock \in Nat
  BY EventLogAssumption DEF TypeOK, LogTypeOK
<1>2. IsFiniteSet(1 .. clock)
  BY <1>1, FS_Interval
<1>3. IsFiniteSet({q \in open[w] : event[q] = Accrued(c)})
  BY <1>1, <1>2, FS_Subset
<1> QED BY <1>3, FS_CardinalityType

\* The next place of the log is free, and what is at the old ones stays.
LEMMA Appends ==
  ASSUME TypeOK, SpineTypeOK, NEW w \in Writers, WriterStamp(w), NEW e \in Recordable,
         event' = [event EXCEPT ![clock + 1] = e]
  PROVE  /\ event' \in [Positions -> Recordable]
         /\ event'[clock + 1] = e /\ clock + 1 \in Positions
         /\ \A p \in Positions : p # clock + 1 => event'[p] = event[p]
<1>1. clock + 1 \in Positions
  BY EventLogAssumption DEF TypeOK, LogTypeOK, Positions, WriterStamp, Stamp
<1> QED BY <1>1 DEF SpineTypeOK, Recordable


\* Nothing is at work at first,
LEMMA SpineInitInv == SpineInit => SpineInv
<1> SUFFICES ASSUME SpineInit PROVE SpineInv
  OBVIOUS
<1>1. SpineTypeOK
  BY DEF SpineInit, SpineTypeOK, Statuses, Codes
<1>2. DispatchInv
  BY InitInv DEF SpineInit
<1>3. \A d \in Dispatchers : WorkSound(d)
  BY DEF SpineInit, Init, LogInit, WorkSound
<1> QED BY <1>1, <1>2, <1>3 DEF SpineInv

\* What an instance does leaves the others where they stand.
Elsewhere(w) ==
  \A e \in Dispatchers \ {w} :
    /\ pc'[e] = pc[e] /\ cur'[e] = cur[e] /\ batch'[e] = batch[e] /\ open'[e] = open[e]
    /\ step'[e] = step[e] /\ todo'[e] = todo[e] /\ saw'[e] = saw[e]

\* A step of one session leaves every other instance sound.
LEMMA ElsewhereSound ==
  ASSUME NEW w, \A d \in Dispatchers : WorkSound(d), Elsewhere(w),
         w \in Dispatchers => WorkSound(w)'
  PROVE  \A d \in Dispatchers : WorkSound(d)'
BY DEF WorkSound, Elsewhere, Work, Lifecycle, Billing

\* A statement of a handler keeps the types, and the instance sound,
LEMMA HandlerSound ==
  ASSUME SpineInv, NEW d \in Dispatchers, HandlerStep(d)
  PROVE  SpineTypeOK' /\ Elsewhere(d) /\ WorkSound(d)'
<1> USE DEF SpineTypeOK, Work, Lifecycle, Billing, Ledger
<1> DEFINE Goal == SpineTypeOK' /\ Elsewhere(d) /\ WorkSound(d)'
<1>0. /\ TypeOK /\ SpineTypeOK /\ WorkSound(d)
      /\ event \in [Positions -> Recordable] /\ batch[d] \subseteq Positions
      /\ d \in Writers
  BY DEF SpineInv, DispatchInv, Recordable, TypeOK
<1>1. CASE SetStatus(d)
  <2>1. PICK p \in batch[d] : SetStatus(d)!(p)
    BY <1>1 DEF SetStatus
  <2>2. Clears(event[p]) \subseteq Codes /\ StatusAfter(event[p]) \in Statuses \cup {None}
    BY <1>0, WorkType
  <2>3. SpineTypeOK' /\ Elsewhere(d)
    BY <2>1, <2>2, <1>0 DEF Begin, Elsewhere, vars
  <2>4. WorkSound(d)'
    BY <2>1, <2>2, <1>0 DEF Begin, At, WorkSound, vars
  <2> QED BY <2>3, <2>4
<1>2. CASE Clear(d)
  <2>1. PICK k \in todo[d] : Clear(d)!2!(k)
    BY <1>2 DEF Clear
  <2>2. k \in Codes
    BY <1>0, <1>2 DEF Clear, WorkSound
  <2>3. SpineTypeOK' /\ Elsewhere(d)
    BY <2>1, <2>2, <1>0, <1>2 DEF Clear, Elsewhere, vars
  <2>4. WorkSound(d)'
    BY <2>1, <1>0, <1>2 DEF Clear, WorkSound, vars
  <2> QED BY <2>3, <2>4
<1>3. CASE LookForOpen(d)
  BY <1>0, <1>3 DEF LookForOpen, dataVars, vars, Elsewhere, WorkSound, At
<1>4. CASE Raise(d)
  <2>1. PICK p \in batch[d] : Raise(d)!(p)
    BY <1>4 DEF Raise
  <2>2. SpineTypeOK'
    <3> DEFINE k == Raises(event[p])
               n == IF saw[d] THEN opened[k] ELSE opened[k] + 1
    <3>0. opened' = [opened EXCEPT ![k] = n] /\ (k \in Codes => n \in Nat)
      BY <2>1, <1>0
    <3> HIDE DEF k, n
    <3>1. opened' \in [Codes -> Nat]
      BY <3>0, <1>0
    <3> QED BY <3>1, <2>1, <1>0
  <2>3. Elsewhere(d) /\ WorkSound(d)'
    BY <2>1, <1>0 DEF Handle, logVars, Elsewhere, WorkSound, TypeOK
  <2> QED BY <2>2, <2>3
<1>5. CASE StartAccrual(d)
  <2>1. PICK p \in batch[d] : StartAccrual(d)!(p)
    BY <1>5 DEF StartAccrual
  <2>2. AccrualOf(event[p]) \subseteq Charges
    BY <1>0, WorkType
  <2>3. SpineTypeOK' /\ Elsewhere(d)
    BY <2>1, <2>2, <1>0 DEF Begin, Elsewhere, vars, dataVars
  <2>4. WorkSound(d)'
    BY <2>1, <2>2, <1>0 DEF Begin, At, WorkSound, vars
  <2> QED BY <2>3, <2>4
<1>6. CASE InsertCharge(d)
  <2>1. PICK c \in todo[d] : /\ WriterStamp(d)
                             /\ event' = [event EXCEPT ![clock + 1] = Accrued(c)]
                             /\ todo' = [todo EXCEPT ![d] = @ \ {c}]
    BY <1>6 DEF InsertCharge
  <2>2. c \in Charges
    BY <1>0, <1>6 DEF InsertCharge, WorkSound
  <2>3. SpineTypeOK'
    <3>1. event' \in [Positions -> Recordable]
      BY <1>0, <2>1, <2>2, Appends DEF Recordable
    <3> QED BY <3>1, <1>0, <1>6, <2>1 DEF InsertCharge, dataVars, Recordable
  <2>4. Elsewhere(d)
    BY <1>0, <1>6, <2>1 DEF InsertCharge, WriterStamp, Stamp, dispatchVars, Elsewhere, TypeOK, LogTypeOK
  <2>5. open[d] = {} /\ open'[d] = {clock + 1}
    BY <1>0, <1>6, <2>1 DEF InsertCharge, WorkSound, WriterStamp, Stamp, TypeOK, LogTypeOK
  <2>6. WorkSound(d)'
    BY <1>0, <1>6, <2>1, <2>5 DEF InsertCharge, WorkSound, WriterStamp, dispatchVars
  <2> QED BY <2>3, <2>4, <2>6
<1>7. CASE CommitCharge(d)
  <2>1. charges' \in [Charges -> Nat]
    <3>1. ASSUME NEW c \in Charges PROVE charges'[c] \in Nat
      <4> DEFINE n == Cardinality({q \in open[d] : event[q] = Accrued(c)})
      <4>1. n \in Nat
        BY <1>0, AddedRows
      <4>2. charges'[c] = charges[c] + n
        BY <1>7 DEF CommitCharge, CommitRows
      <4>3. charges[c] \in Nat
        BY <1>0
      <4> HIDE DEF n
      <4> QED BY <4>1, <4>2, <4>3
    <3> QED BY <3>1, <1>7 DEF CommitCharge, CommitRows
  <2>2. open' = [open EXCEPT ![d] = {}]
    BY <1>7 DEF CommitCharge, CommitRows, WriterCommit, Commit
  <2>3. Elsewhere(d) /\ WorkSound(d)'
    BY <1>7, <1>0, <2>2 DEF CommitCharge, CommitRows, WriterCommit, Elsewhere, WorkSound, TypeOK, LogTypeOK
  <2> QED BY <1>0, <1>7, <2>1, <2>3 DEF CommitCharge
<1>8. CASE StartLedger(d)
  <2>1. PICK p \in batch[d] : StartLedger(d)!(p)
    BY <1>8 DEF StartLedger
  <2>2. Mapped(event[p]) \subseteq LedgerTypes
    BY <1>0, WorkType
  <2>3. SpineTypeOK' /\ Elsewhere(d)
    BY <2>1, <2>2, <1>0 DEF Begin, Elsewhere, vars, dataVars
  <2>4. WorkSound(d)'
    BY <2>1, <2>2, <1>0 DEF Begin, At, WorkSound, vars
  <2> QED BY <2>3, <2>4
<1>9. CASE InsertLedger(d)
  <2>1. PICK p \in batch[d], t \in todo[d] :
          /\ At(d, Ledger, p) /\ step[d] = "work"
          /\ ledger' = ledger \cup {<<p, t>>}
          /\ todo' = [todo EXCEPT ![d] = @ \ {t}]
    BY <1>9 DEF InsertLedger
  <2>2. t \in LedgerTypes
    BY <1>0, <2>1 DEF WorkSound, At
  <2>3. SpineTypeOK'
    BY <1>0, <1>9, <2>1, <2>2 DEF InsertLedger
  <2>4. Elsewhere(d) /\ WorkSound(d)'
    BY <1>0, <1>9, <2>1 DEF InsertLedger, Elsewhere, WorkSound, vars
  <2> QED BY <2>3, <2>4
<1>10. CASE Return(d)
  <2>1. SpineTypeOK'
    BY <1>0, <1>10 DEF Return, dataVars
  <2>2. Elsewhere(d) /\ WorkSound(d)'
    BY <1>0, <1>10 DEF Return, Handle, logVars, Elsewhere, WorkSound, TypeOK
  <2> QED BY <2>1, <2>2
<1> QED BY <1>1, <1>2, <1>3, <1>4, <1>5, <1>6, <1>7, <1>8, <1>9, <1>10 DEF HandlerStep

\* so do the tick around the handlers, its faults, and the end of a transaction that a
\* fault left open,
LEMMA TickSound ==
  ASSUME SpineInv, NEW d \in Dispatchers, Around(d) \/ TickFault(d) \/ OrphanCommits(d) \/ OrphanRollsBack(d)
  PROVE  SpineTypeOK' /\ Elsewhere(d) /\ WorkSound(d)'
<1> USE DEF SpineTypeOK
<1>0. TypeOK /\ SpineTypeOK /\ WorkSound(d) /\ d \in Writers
  BY DEF SpineInv, DispatchInv
<1>1. CASE Around(d)
  <2>1. SpineTypeOK'
    BY <1>0, <1>1 DEF Around, dataVars, localVars
  <2>2. CASE open[d] = {} /\ StartTick(d)
    BY <1>0, <1>1, <2>1, <2>2 DEF Around, localVars, StartTick, logVars, Elsewhere, WorkSound, TypeOK
  <2>3. CASE ReadOffset(d)
    BY <1>0, <1>1, <2>1, <2>3 DEF Around, localVars, ReadOffset, logVars, Elsewhere, WorkSound, TypeOK
  <2>4. CASE SelectBatch(d)
    <3>1. open' = open /\ step' = step /\ todo' = todo /\ saw' = saw /\ cur' = cur
          /\ pc' = [pc EXCEPT ![d] = "handle"] /\ pc[d] = "select"
          /\ \A e \in Dispatchers \ {d} : batch'[e] = batch[e]
      BY <1>0, <1>1, <2>4 DEF Around, localVars, SelectBatch, logVars, TypeOK
    <3> QED BY <1>0, <2>1, <3>1 DEF Elsewhere, WorkSound, TypeOK
  <2>5. CASE DrainDone(d)
    <3>1. open' = open /\ step' = step /\ todo' = todo /\ saw' = saw /\ batch' = batch
          /\ pc[d] = "select" /\ pc'[d] \in {"read", "idle"}
          /\ \A e \in Dispatchers \ {d} : pc'[e] = pc[e] /\ cur'[e] = cur[e]
      BY <1>0, <1>1, <2>5 DEF Around, localVars, DrainDone, logVars, TypeOK
    <3> QED BY <1>0, <2>1, <3>1 DEF Elsewhere, WorkSound
  <2>6. CASE Advance(d)
    <3>1. open' = open /\ step' = step /\ todo' = todo /\ saw' = saw /\ cur' = cur
          /\ pc[d] = "advance"
          /\ \A e \in Dispatchers \ {d} : pc'[e] = pc[e] /\ batch'[e] = batch[e]
      BY <1>0, <1>1, <2>6 DEF Around, localVars, Advance, logVars, TypeOK
    <3> QED BY <1>0, <2>1, <3>1 DEF Elsewhere, WorkSound
  <2> QED BY <1>1, <2>1, <2>2, <2>3, <2>4, <2>5, <2>6 DEF Around
<1>2. CASE TickFault(d)
  BY <1>0, <1>2 DEF TickFault, Fault, Abandon, logVars, dataVars, Elsewhere, WorkSound, TypeOK
<1>3. CASE OrphanCommits(d)
  <2>1. charges' \in [Charges -> Nat]
    <3>1. ASSUME NEW c \in Charges PROVE charges'[c] \in Nat
      <4> DEFINE n == Cardinality({q \in open[d] : event[q] = Accrued(c)})
      <4>1. n \in Nat
        BY <1>0, AddedRows
      <4>2. charges'[c] = charges[c] + n
        BY <1>3 DEF OrphanCommits, CommitRows
      <4>3. charges[c] \in Nat
        BY <1>0
      <4> HIDE DEF n
      <4> QED BY <4>1, <4>2, <4>3
    <3> QED BY <3>1, <1>3 DEF OrphanCommits, CommitRows
  <2>2. Elsewhere(d) /\ WorkSound(d)'
    BY <1>0, <1>3 DEF OrphanCommits, CommitRows, WriterCommit, Commit, localVars,
                      Elsewhere, WorkSound, TypeOK, LogTypeOK
  <2> QED BY <1>0, <1>3, <2>1, <2>2 DEF OrphanCommits, localVars
<1>4. CASE OrphanRollsBack(d)
  BY <1>0, <1>4 DEF OrphanRollsBack, WriterRollback, Rollback, dispatchVars, localVars, dataVars,
                    Elsewhere, WorkSound, TypeOK, LogTypeOK
<1> QED BY <1>1, <1>2, <1>3, <1>4

\* and so do the services' transactions.
LEMMA OutsideSound ==
  ASSUME SpineInv, NEW w \in Outside, Arrive(w) \/ ArrivalCommits(w) \/ ArrivalRollsBack(w)
  PROVE  SpineTypeOK' /\ Elsewhere(w)
<1>0. TypeOK /\ SpineTypeOK /\ w \in Writers \ Dispatchers
  BY DEF SpineInv, DispatchInv, Outside
<1>1. CASE Arrive(w)
  <2>1. PICK e \in Arrivals : WriterStamp(w) /\ event' = [event EXCEPT ![clock + 1] = e]
    BY <1>1 DEF Arrive
  <2>2. event' \in [Positions -> Recordable]
    BY <1>0, <2>1, Appends DEF Recordable
  <2> QED BY <1>0, <1>1, <2>1, <2>2
          DEF Arrive, WriterStamp, Stamp, dispatchVars, dataVars, localVars, SpineTypeOK, Recordable,
              Elsewhere, TypeOK, LogTypeOK
<1>2. CASE ArrivalCommits(w)
  BY <1>0, <1>2 DEF ArrivalCommits, WriterCommit, Commit, dataVars, localVars, SpineTypeOK,
                    Elsewhere, TypeOK, LogTypeOK
<1>3. CASE ArrivalRollsBack(w)
  BY <1>0, <1>3 DEF ArrivalRollsBack, WriterRollback, Rollback, dispatchVars, dataVars, localVars,
                    SpineTypeOK, Elsewhere, TypeOK, LogTypeOK
<1> QED BY <1>1, <1>2, <1>3

\* SpineInv is inductive.
LEMMA SpineNextInv == SpineInv /\ [SpineNext]_spineVars => SpineInv'
<1> SUFFICES ASSUME SpineInv, [SpineNext]_spineVars PROVE SpineInv'
  OBVIOUS
<1>1. DispatchInv'
  <2>1. [Next]_vars
    BY SpineStepMaps DEF spineVars
  <2> QED BY <2>1, NextInv DEF SpineInv
<1>2. CASE UNCHANGED spineVars
  BY <1>1, <1>2 DEF SpineInv, SpineTypeOK, WorkSound, spineVars, vars, dataVars, localVars
<1>3. ASSUME NEW w \in Outside, Arrive(w) \/ ArrivalCommits(w) \/ ArrivalRollsBack(w)
      PROVE  SpineInv'
  <2>1. SpineTypeOK' /\ Elsewhere(w) /\ w \notin Dispatchers
    BY <1>3, OutsideSound DEF Outside
  <2> QED BY <1>1, <2>1, ElsewhereSound DEF SpineInv
<1>4. ASSUME NEW d \in Dispatchers, SpineTick(d) \/ TickFault(d) \/ OrphanCommits(d)
      PROVE  SpineInv'
  <2>1. SpineTypeOK' /\ Elsewhere(d) /\ WorkSound(d)'
    BY <1>4, HandlerSound, TickSound DEF SpineTick
  <2> QED BY <1>1, <2>1, ElsewhereSound DEF SpineInv
<1> QED BY <1>2, <1>3, <1>4 DEF SpineNext

\* The read models keep their types: an exception row is of a known code, a charge of
\* the quote or the duty, and a ledger row of a mapped type.
THEOREM SpineTypeCorrect == SpineSpec => []SpineTypeOK
<1>1. SpineInv => SpineTypeOK
  BY DEF SpineInv
<1> QED BY <1>1, SpineInitInv, SpineNextInv, PTL DEF SpineSpec

-----------------------------------------------------------------------------
(* How often a charge is accrued, or an exception opened.                  *)

\* Instance d goes on to write charge c: it is past the check, or its transaction has
\* not ended.
ToCharge(d, c) ==
  \/ cur[d] = Billing /\ step[d] # "begin" /\ c \in todo[d]
  \/ \E q \in open[d] : event[q] = Accrued(c)

\* Instance d goes on to open an exception of code k, having seen none.
ToOpen(d, k) ==
  /\ step[d] = "raise" /\ ~saw[d]
  /\ \E p \in batch[d] : IsNext(d, p) /\ Raises(event[p]) = k

Charging(c) == {d \in Dispatchers : ToCharge(d, c)}
Opening(k) == {d \in Dispatchers : ToOpen(d, k)}

\* What is in an open transaction is not due again.
Unwritten(d) ==
  cur[d] = Billing /\ step[d] # "begin" =>
    \A c \in todo[d], q \in open[d] : event[q] # Accrued(c)

\* Who has not run stands nowhere and has nothing open.
RanSound ==
  /\ ran \subseteq Dispatchers /\ IsFiniteSet(ran)
  /\ \A d \in Dispatchers \ ran : pc[d] = "idle" /\ open[d] = {}

OnceInv ==
  /\ SpineInv
  /\ RanSound
  /\ \A d \in Dispatchers : Unwritten(d)
  /\ \A c \in Charges : charges[c] + Cardinality(Charging(c)) <= Cardinality(ran)
  /\ \A k \in Codes : opened[k] + Cardinality(Opening(k)) <= Cardinality(ran)

\* Whoever has something to write has run.
LEMMA WritersRan ==
  SpineInv /\ RanSound => \A c, k : Charging(c) \subseteq ran /\ Opening(k) \subseteq ran
<1> SUFFICES ASSUME SpineInv, RanSound, NEW d \in Dispatchers \ ran
             PROVE  /\ \A c : ~ToCharge(d, c)
                    /\ \A k : ~ToOpen(d, k)
  BY DEF Charging, Opening
<1>1. pc[d] = "idle" /\ open[d] = {} /\ WorkSound(d)
  BY DEF RanSound, SpineInv
<1>2. step[d] = "begin"
  BY <1>1 DEF WorkSound
<1> QED BY <1>1, <1>2 DEF ToCharge, ToOpen

\* A row more is one instance less that is going to write it.
LEMMA RowsBounded ==
  ASSUME NEW D, IsFiniteSet(D), NEW C \in SUBSET D, NEW S \in SUBSET D, NEW T \in SUBSET D, NEW w,
         T \ {w} \subseteq S, NEW n \in Nat, NEW m \in Nat, n + Cardinality(S) <= Cardinality(C),
         \/ m <= n /\ (w \in T => w \in S)
         \/ m = 0
         \/ m <= n + 1 /\ w \in S /\ w \notin T
  PROVE  m + Cardinality(T) <= Cardinality(D)
<1>1. IsFiniteSet(S) /\ IsFiniteSet(T) /\ Cardinality(D) \in Nat /\ Cardinality(S) \in Nat
      /\ Cardinality(T) \in Nat
  BY FS_Subset, FS_CardinalityType
<1>5. n + Cardinality(S) <= Cardinality(D)
  <2>1. Cardinality(C) <= Cardinality(D) /\ Cardinality(C) \in Nat
    BY FS_Subset, FS_CardinalityType
  <2> QED BY <1>1, <2>1
<1>2. CASE m <= n /\ (w \in T => w \in S)
  <2>1. T \subseteq S
    BY <1>2
  <2>2. Cardinality(T) <= Cardinality(S)
    BY <1>1, <2>1, FS_Subset
  <2> QED BY <1>1, <1>2, <1>5, <2>2
<1>3. CASE m = 0
  <2>1. Cardinality(T) <= Cardinality(D)
    BY FS_Subset
  <2> QED BY <1>1, <1>3, <2>1
<1>4. CASE m <= n + 1 /\ w \in S /\ w \notin T
  <2>1. T \subseteq S \ {w}
    BY <1>4
  <2>2. IsFiniteSet(S \ {w}) /\ Cardinality(S \ {w}) = Cardinality(S) - 1
    BY <1>1, <1>4, FS_RemoveElement
  <2>3. Cardinality(T) <= Cardinality(S \ {w})
    BY <2>1, <2>2, FS_Subset
  <2> QED BY <1>1, <1>4, <1>5, <2>2, <2>3
<1> QED BY <1>2, <1>3, <1>4

\* What is at the old places of the log stays, at every step.
LEMMA LogStays ==
  ASSUME SpineInv, [SpineNext]_spineVars
  PROVE  \A p \in 1 .. clock : event'[p] = event[p]
<1>0. TypeOK /\ SpineTypeOK /\ 1 .. clock \subseteq Positions /\ clock \in Nat
  BY EventLogAssumption DEF SpineInv, DispatchInv, TypeOK, LogTypeOK, Positions
<1>1. ASSUME NEW w \in Writers, WriterStamp(w), NEW e \in Recordable,
             event' = [event EXCEPT ![clock + 1] = e]
      PROVE  \A p \in 1 .. clock : event'[p] = event[p]
  BY <1>0, <1>1, Appends
<1>2. ASSUME NEW w \in Outside, Arrive(w) PROVE \A p \in 1 .. clock : event'[p] = event[p]
  BY <1>1, <1>2 DEF Arrive, Outside, Recordable
<1>3. ASSUME NEW d \in Dispatchers, InsertCharge(d)
      PROVE  \A p \in 1 .. clock : event'[p] = event[p]
  <2>1. PICK c \in todo[d] : /\ WriterStamp(d)
                             /\ event' = [event EXCEPT ![clock + 1] = Accrued(c)]
    BY <1>3 DEF InsertCharge
  <2>2. c \in Charges
    BY <1>3 DEF InsertCharge, SpineInv, WorkSound, Work, Lifecycle, Billing
  <2> QED BY <1>1, <2>1, <2>2 DEF Recordable
<1>4. CASE event' = event
  BY <1>4
<1> QED
  BY <1>2, <1>3, <1>4 DEF SpineNext, SpineTick, HandlerStep, Around, TickFault, OrphanCommits,
     OrphanRollsBack, ArrivalCommits, ArrivalRollsBack, SetStatus, Clear, LookForOpen, Raise,
     StartAccrual, CommitCharge, StartLedger, InsertLedger, Return, Begin, dataVars, spineVars

\* What one session does makes no other instance go on to write more.
LEMMA OthersWait ==
  ASSUME SpineInv, NEW w, Elsewhere(w), \A p \in 1 .. clock : event'[p] = event[p],
         NEW e \in Dispatchers \ {w}
  PROVE  /\ \A c : ToCharge(e, c)' => ToCharge(e, c)
         /\ \A k : ToOpen(e, k)' => ToOpen(e, k)
         /\ Unwritten(e) => Unwritten(e)'
<1>1. open[e] \subseteq 1 .. clock /\ batch[e] \subseteq 1 .. clock
  BY DEF SpineInv, DispatchInv, BatchSound, TypeOK, LogTypeOK
<1>2. /\ cur'[e] = cur[e] /\ batch'[e] = batch[e] /\ open'[e] = open[e]
      /\ step'[e] = step[e] /\ todo'[e] = todo[e] /\ saw'[e] = saw[e]
  BY DEF Elsewhere
<1>3. \A p \in open[e] \cup batch[e] : event'[p] = event[p]
  BY <1>1
<1>4. \A c : ToCharge(e, c)' => ToCharge(e, c)
  BY <1>2, <1>3 DEF ToCharge, Accrued
<1>5. \A k : ToOpen(e, k)' => ToOpen(e, k)
  BY <1>2, <1>3 DEF ToOpen, IsNext
<1>6. Unwritten(e) => Unwritten(e)'
  BY <1>2, <1>3 DEF Unwritten, Accrued
<1> QED BY <1>4, <1>5, <1>6
\* What a step of session w does to one count: n was to be found there, m is now, and
\* w went on to add one before, or does so after it.
Fair(w, n, m, due, still) ==
  \/ m <= n /\ (w \in Dispatchers /\ still => due)
  \/ m = 0
  \/ m <= n + 1 /\ w \in Dispatchers /\ due /\ ~still

\* A step that is fair to every charge and to every code keeps OnceInv.
LEMMA FairStep ==
  ASSUME OnceInv, SpineInv', RanSound', ran \subseteq ran', NEW w, Elsewhere(w),
         \A p \in 1 .. clock : event'[p] = event[p],
         w \in Dispatchers => Unwritten(w)',
         \A c \in Charges : Fair(w, charges[c], charges'[c], ToCharge(w, c), ToCharge(w, c)'),
         \A k \in Codes : Fair(w, opened[k], opened'[k], ToOpen(w, k), ToOpen(w, k)')
  PROVE  OnceInv'
<1>0. /\ \A c \in Charges : charges[c] \in Nat /\ charges'[c] \in Nat
      /\ \A k \in Codes : opened[k] \in Nat /\ opened'[k] \in Nat
  BY DEF OnceInv, SpineInv, SpineTypeOK
<1>a. /\ IsFiniteSet(ran') /\ ran \in SUBSET ran'
      /\ \A c, k : Charging(c) \subseteq ran' /\ Opening(k) \subseteq ran'
  BY WritersRan DEF RanSound, OnceInv
<1>b. (\A c, k : Charging(c) \subseteq ran /\ Opening(k) \subseteq ran)'
  <2>1. (SpineInv /\ RanSound)' => (\A c, k : Charging(c) \subseteq ran /\ Opening(k) \subseteq ran)'
    BY WritersRan, PTL
  <2> QED BY <2>1
<1>1. \A e \in Dispatchers \ {w} :
        /\ \A c : ToCharge(e, c)' => ToCharge(e, c)
        /\ \A k : ToOpen(e, k)' => ToOpen(e, k)
        /\ Unwritten(e) => Unwritten(e)'
  BY OthersWait DEF OnceInv
<1>2. \A e \in Dispatchers : Unwritten(e)'
  BY <1>1 DEF OnceInv
<1>3. ASSUME NEW c \in Charges
      PROVE  charges'[c] + Cardinality(Charging(c)') <= Cardinality(ran')
  <2>1. Charging(c)' \ {w} \subseteq Charging(c)
    BY <1>1 DEF Charging
  <2>5. Charging(c) \in SUBSET ran' /\ Charging(c)' \in SUBSET ran'
    BY <1>a, <1>b
  <2>2. /\ w \in Charging(c) <=> w \in Dispatchers /\ ToCharge(w, c)
        /\ w \in Charging(c)' <=> w \in Dispatchers /\ ToCharge(w, c)'
    BY DEF Charging
  <2>3. charges[c] + Cardinality(Charging(c)) <= Cardinality(ran)
    BY DEF OnceInv
  <2>4. \/ charges'[c] <= charges[c] /\ (w \in Charging(c)' => w \in Charging(c))
        \/ charges'[c] = 0
        \/ charges'[c] <= charges[c] + 1 /\ w \in Charging(c) /\ w \notin Charging(c)'
    BY <2>2 DEF Fair
  <2> HIDE DEF Charging
  <2> QED BY <1>0, <1>a, <2>1, <2>2, <2>3, <2>4, <2>5, RowsBounded
<1>4. ASSUME NEW k \in Codes
      PROVE  opened'[k] + Cardinality(Opening(k)') <= Cardinality(ran')
  <2>1. Opening(k)' \ {w} \subseteq Opening(k)
    BY <1>1 DEF Opening
  <2>5. Opening(k) \in SUBSET ran' /\ Opening(k)' \in SUBSET ran'
    BY <1>a, <1>b
  <2>2. /\ w \in Opening(k) <=> w \in Dispatchers /\ ToOpen(w, k)
        /\ w \in Opening(k)' <=> w \in Dispatchers /\ ToOpen(w, k)'
    BY DEF Opening
  <2>3. opened[k] + Cardinality(Opening(k)) <= Cardinality(ran)
    BY DEF OnceInv
  <2>4. \/ opened'[k] <= opened[k] /\ (w \in Opening(k)' => w \in Opening(k))
        \/ opened'[k] = 0
        \/ opened'[k] <= opened[k] + 1 /\ w \in Opening(k) /\ w \notin Opening(k)'
    BY <2>2 DEF Fair
  <2> HIDE DEF Opening
  <2> QED BY <1>0, <1>a, <2>1, <2>2, <2>3, <2>4, <2>5, RowsBounded
<1> QED BY <1>2, <1>3, <1>4 DEF OnceInv

\* A step that writes no row and takes up no more work is fair.
LEMMA FairIdle ==
  ASSUME SpineInv, SpineInv', NEW d \in Dispatchers, Unwritten(d), charges' = charges, opened' = opened,
         open'[d] \subseteq open[d], \A p \in 1 .. clock : event'[p] = event[p],
         cur'[d] = Billing /\ step'[d] # "begin" =>
           cur[d] = Billing /\ step[d] # "begin" /\ todo'[d] \subseteq todo[d],
         step'[d] # "raise"
  PROVE  /\ Unwritten(d)'
         /\ \A c \in Charges : Fair(d, charges[c], charges'[c], ToCharge(d, c), ToCharge(d, c)')
         /\ \A k \in Codes : Fair(d, opened[k], opened'[k], ToOpen(d, k), ToOpen(d, k)')
<1>0. /\ \A c \in Charges : charges[c] \in Nat
      /\ \A k \in Codes : opened[k] \in Nat
  BY DEF SpineInv, SpineTypeOK
<1>1. open[d] \subseteq 1 .. clock
  BY DEF SpineInv, DispatchInv, TypeOK, LogTypeOK
<1>2. \A q \in open'[d] : q \in open[d] /\ event'[q] = event[q]
  BY <1>1
<1>3. Unwritten(d)'
  BY <1>2 DEF Unwritten, Accrued
<1>4. \A c : ToCharge(d, c)' => ToCharge(d, c)
  BY <1>2 DEF ToCharge, Accrued
<1>5. \A k : ~ToOpen(d, k)'
  BY DEF ToOpen
<1> QED BY <1>0, <1>3, <1>4, <1>5 DEF Fair

\* The commit of a charge adds the row that d was going to write.
LEMMA FairCommit ==
  ASSUME SpineInv, SpineInv', NEW d \in Dispatchers, Unwritten(d), CommitRows(d),
         event' = event, cur' = cur, todo' = todo, opened' = opened,
         cur'[d] = Billing /\ step'[d] # "begin" => cur[d] = Billing /\ step[d] # "begin",
         step'[d] # "raise"
  PROVE  /\ Unwritten(d)'
         /\ \A c \in Charges : Fair(d, charges[c], charges'[c], ToCharge(d, c), ToCharge(d, c)')
         /\ \A k \in Codes : Fair(d, opened[k], opened'[k], ToOpen(d, k), ToOpen(d, k)')
<1>0. TypeOK /\ SpineTypeOK /\ WorkSound(d) /\ d \in Writers
  BY DEF SpineInv, DispatchInv
<1>1. open'[d] = {}
  BY <1>0 DEF CommitRows, WriterCommit, Commit, TypeOK, LogTypeOK
<1>2. Unwritten(d)'
  BY <1>1 DEF Unwritten
<1>3. ASSUME NEW c \in Charges
      PROVE  Fair(d, charges[c], charges'[c], ToCharge(d, c), ToCharge(d, c)')
  <2> DEFINE S == {q \in open[d] : event[q] = Accrued(c)}
  <2>1. charges'[c] = charges[c] + Cardinality(S) /\ charges[c] \in Nat
    BY <1>0 DEF CommitRows, SpineTypeOK
  <2>2. CASE S = {}
    <3>1. Cardinality(S) = 0
      BY <2>2, FS_EmptySet
    <3>2. ToCharge(d, c)' => ToCharge(d, c)
      BY <1>1 DEF ToCharge
    <3> HIDE DEF S
    <3> QED BY <2>1, <3>1, <3>2 DEF Fair
  <2>3. CASE S # {}
    <3>1. PICK q \in open[d] : event[q] = Accrued(c)
      BY <2>3
    <3>2. S = {q}
      BY <3>1, <1>0 DEF WorkSound
    <3>3. Cardinality(S) = 1
      BY <3>2, FS_Singleton
    <3>4. ToCharge(d, c)
      BY <3>1 DEF ToCharge
    <3>5. ~ToCharge(d, c)'
      BY <3>1, <1>1 DEF ToCharge, Unwritten
    <3> HIDE DEF S
    <3> QED BY <2>1, <3>3, <3>4, <3>5 DEF Fair
  <2> QED BY <2>2, <2>3
<1>4. ASSUME NEW k \in Codes
      PROVE  Fair(d, opened[k], opened'[k], ToOpen(d, k), ToOpen(d, k)')
  <2>1. ~ToOpen(d, k)' /\ opened[k] \in Nat
    BY <1>0 DEF ToOpen, SpineTypeOK
  <2> QED BY <2>1 DEF Fair
<1> QED BY <1>2, <1>3, <1>4

\* An instance that a step finds idle with nothing open is left so, or has run.
LEMMA RanNext ==
  ASSUME SpineInv, SpineInv', RanSound, [CrossNext]_crossVars
  PROVE  RanSound' /\ ran \subseteq ran'
<1>1. CASE UNCHANGED crossVars
  BY <1>1 DEF RanSound, crossVars, historyVars, spineVars, vars, logVars
<1>2. CASE CrossNext
  <2>1. ran' = ran \cup {d \in Dispatchers : pc'[d] # "idle"}
    BY <1>2 DEF CrossNext, Remember
  <2>2. PICK w : /\ Elsewhere(w)
                 /\ w \in Dispatchers => SpineTick(w) \/ TickFault(w) \/ OrphanCommits(w)
    <3>1. ASSUME NEW w \in Outside, Arrive(w) \/ ArrivalCommits(w) \/ ArrivalRollsBack(w)
          PROVE  Elsewhere(w) /\ w \notin Dispatchers
      BY <3>1, OutsideSound DEF Outside
    <3>2. ASSUME NEW d \in Dispatchers, SpineTick(d) \/ TickFault(d) \/ OrphanCommits(d)
          PROVE  Elsewhere(d)
      BY <3>2, HandlerSound, TickSound DEF SpineTick
    <3> QED BY <1>2, <3>1, <3>2 DEF CrossNext, SpineNext
  <2>3. IsFiniteSet(ran')
    <3>1. ran' \subseteq ran \cup {w}
      BY <2>1, <2>2 DEF RanSound, Elsewhere
    <3> QED BY <3>1, FS_AddElement, FS_Subset DEF RanSound
  <2>4. ASSUME NEW d \in Dispatchers \ ran, pc'[d] = "idle" PROVE open'[d] = {}
    <3>0. pc[d] = "idle" /\ open[d] = {} /\ TypeOK /\ WorkSound(d) /\ d \in Writers
      BY DEF RanSound, SpineInv, DispatchInv
    <3>1. CASE w # d
      BY <2>2, <3>0, <3>1 DEF Elsewhere
    <3>2. CASE HandlerStep(d)
      BY <3>0, <3>2 DEF HandlerStep, SetStatus, Clear, LookForOpen, Raise, StartAccrual, InsertCharge,
                    CommitCharge, StartLedger, InsertLedger, Return, At, WorkSound
    <3>3. CASE Around(d)
      BY <3>0, <3>3 DEF Around, StartTick, ReadOffset, SelectBatch, DrainDone, Advance, logVars
    <3>4. CASE TickFault(d)
      BY <3>0, <3>4 DEF TickFault, Fault, Abandon, logVars
    <3>5. CASE OrphanCommits(d) \/ OrphanRollsBack(d)
      BY <3>0, <3>5 DEF OrphanCommits, OrphanRollsBack, CommitRows, WriterCommit, WriterRollback, Commit,
                    Rollback, TypeOK, LogTypeOK
    <3> QED BY <2>2, <3>1, <3>2, <3>3, <3>4, <3>5 DEF SpineTick
  <2> QED BY <2>1, <2>3, <2>4 DEF RanSound
<1> QED BY <1>1, <1>2

\* Every step keeps OnceInv, for any number of instances.
LEMMA OnceNextInv == OnceInv /\ [CrossNext]_crossVars => OnceInv'
<1> SUFFICES ASSUME OnceInv, [CrossNext]_crossVars PROVE OnceInv'
  OBVIOUS
<1>0. /\ SpineInv /\ SpineInv' /\ TypeOK /\ SpineTypeOK
      /\ \A d \in Dispatchers : WorkSound(d) /\ Unwritten(d)
      /\ \A c \in Charges : charges[c] \in Nat
      /\ \A k \in Codes : opened[k] \in Nat
      /\ [SpineNext]_spineVars
  BY SpineNextInv DEF OnceInv, SpineInv, DispatchInv, SpineTypeOK, CrossNext, crossVars
<1>a. \A p \in 1 .. clock : event'[p] = event[p]
  BY <1>0, LogStays
<1>r. RanSound' /\ ran \subseteq ran'
  BY <1>0, RanNext DEF OnceInv
<1> DEFINE Even(d) ==
      /\ Unwritten(d)'
      /\ \A c \in Charges : Fair(d, charges[c], charges'[c], ToCharge(d, c), ToCharge(d, c)')
      /\ \A k \in Codes : Fair(d, opened[k], opened'[k], ToOpen(d, k), ToOpen(d, k)')
<1>b. ASSUME NEW d \in Dispatchers, Even(d), SpineTick(d) \/ TickFault(d) \/ OrphanCommits(d)
      PROVE  OnceInv'
  <2>1. Elsewhere(d)
    BY <1>0, <1>b, HandlerSound, TickSound DEF SpineTick
  <2> QED BY <1>0, <1>a, <1>b, <1>r, <2>1, FairStep
<1>1. CASE UNCHANGED crossVars
  <2>0. UNCHANGED spineVars /\ ran' = ran
    BY <1>1 DEF crossVars, historyVars
  <2>1. \A d \in Dispatchers : \A c : ToCharge(d, c)' = ToCharge(d, c)
    BY <2>0 DEF ToCharge, spineVars, vars, localVars, dataVars, Accrued
  <2>2. \A d \in Dispatchers : \A k : ToOpen(d, k)' = ToOpen(d, k)
    BY <2>0 DEF ToOpen, IsNext, spineVars, vars, localVars
  <2>3. \A d \in Dispatchers : Unwritten(d)'
    BY <1>0, <2>0 DEF Unwritten, spineVars, vars, localVars, Accrued
  <2>4. charges' = charges /\ opened' = opened
    BY <2>0 DEF spineVars, dataVars
  <2>5. /\ \A c \in Charges : Charging(c)' = Charging(c)
        /\ \A k \in Codes : Opening(k)' = Opening(k)
    BY <2>1, <2>2 DEF Charging, Opening
  <2> QED BY <1>0, <1>r, <2>0, <2>3, <2>4, <2>5 DEF OnceInv
<1>2. ASSUME NEW w \in Outside, Arrive(w) \/ ArrivalCommits(w) \/ ArrivalRollsBack(w)
      PROVE  OnceInv'
  <2>1. Elsewhere(w) /\ w \notin Dispatchers
    BY <1>0, <1>2, OutsideSound DEF Outside
  <2>2. charges' = charges /\ opened' = opened
    BY <1>2 DEF Arrive, ArrivalCommits, ArrivalRollsBack, dataVars
  <2>3. /\ \A c \in Charges : Fair(w, charges[c], charges'[c], ToCharge(w, c), ToCharge(w, c)')
        /\ \A k \in Codes : Fair(w, opened[k], opened'[k], ToOpen(w, k), ToOpen(w, k)')
    BY <1>0, <2>1, <2>2 DEF Fair
  <2> QED BY <1>0, <1>a, <1>r, <2>1, <2>3, FairStep
<1>3. ASSUME NEW d \in Dispatchers, Around(d) \/ TickFault(d) \/ OrphanRollsBack(d)
      PROVE  Even(d)
  <2>1. charges' = charges /\ opened' = opened
    BY <1>3 DEF Around, TickFault, OrphanRollsBack, dataVars
  <2>2. open'[d] \subseteq open[d]
    BY <1>0, <1>3 DEF Around, TickFault, OrphanRollsBack, StartTick, ReadOffset, SelectBatch, DrainDone,
                Advance, Fault, Abandon, logVars, WriterRollback, Rollback, TypeOK, LogTypeOK
  <2>3. step'[d] # "begin" => step'[d] = step[d] /\ todo'[d] = todo[d]
    BY <1>0, <1>3 DEF Around, TickFault, OrphanRollsBack, localVars, SpineTypeOK
  <2>4. step[d] # "begin" => pc[d] = "handle"
    BY <1>0 DEF WorkSound
  <2>5. step'[d] = "begin" \/ (cur'[d] = cur[d] /\ step'[d] # "raise")
    <3>1. CASE Around(d)
      BY <1>0, <2>3, <2>4, <3>1 DEF Around, StartTick, ReadOffset, SelectBatch, DrainDone, Advance
    <3>2. CASE TickFault(d)
      BY <1>0, <3>2 DEF TickFault, SpineTypeOK
    <3>3. CASE OrphanRollsBack(d)
      <4>1. pc[d] = "idle" /\ step' = step
        BY <3>3 DEF OrphanRollsBack, localVars
      <4> QED BY <2>4, <4>1
    <3> QED BY <1>3, <3>1, <3>2, <3>3
  <2> HIDE DEF Even
  <2>6. Even(d)
    BY <1>0, <1>a, <2>1, <2>2, <2>3, <2>5, FairIdle DEF Even
  <2> QED BY <2>6
<1>4. ASSUME NEW d \in Dispatchers, OrphanCommits(d) PROVE Even(d)
  <2>1. /\ event' = event /\ cur' = cur /\ todo' = todo /\ step' = step /\ opened' = opened
        /\ CommitRows(d) /\ pc[d] = "idle"
    BY <1>4 DEF OrphanCommits, CommitRows, WriterCommit, localVars
  <2>2. step[d] = "begin"
    BY <1>0, <2>1 DEF WorkSound
  <2> HIDE DEF Even
  <2>3. Even(d)
    BY <1>0, <2>1, <2>2, FairCommit DEF Even
  <2> QED BY <2>3
<1>5. ASSUME NEW d \in Dispatchers, CommitCharge(d) PROVE Even(d)
  <2>1. event' = event /\ cur' = cur /\ todo' = todo /\ opened' = opened /\ CommitRows(d)
    BY <1>5 DEF CommitCharge, CommitRows, WriterCommit
  <2>2. step[d] = "commit" /\ step'[d] = "work" /\ cur[d] = Billing
    BY <1>0, <1>5 DEF CommitCharge, WorkSound, SpineTypeOK
  <2> HIDE DEF Even
  <2>3. Even(d)
    BY <1>0, <2>1, <2>2, FairCommit DEF Even
  <2> QED BY <2>3
<1>6. ASSUME NEW d \in Dispatchers, SetStatus(d) \/ StartLedger(d) \/ InsertLedger(d) \/ Return(d)
      PROVE  Even(d)
  <2>1. charges' = charges /\ opened' = opened /\ open' = open /\ cur' = cur
    BY <1>6 DEF SetStatus, StartLedger, InsertLedger, Return, Begin, Handle, dataVars, vars, logVars
  <2>2. (cur[d] # Billing \/ step'[d] = "begin") /\ step'[d] # "raise"
    BY <1>0, <1>6 DEF SetStatus, StartLedger, InsertLedger, Return, Begin, At,
                Lifecycle, Billing, Ledger, SpineTypeOK
  <2> HIDE DEF Even
  <2>3. Even(d)
    BY <1>0, <1>a, <2>1, <2>2, FairIdle DEF Even
  <2> QED BY <2>3
<1>7. ASSUME NEW d \in Dispatchers, Clear(d) \/ LookForOpen(d) \/ Raise(d) PROVE Even(d)
  <2>1. /\ cur[d] = Lifecycle /\ cur' = cur /\ charges' = charges /\ event' = event /\ open' = open
        /\ batch' = batch
    BY <1>7 DEF Clear, LookForOpen, Raise, At, Handle, vars, logVars, dataVars
  <2>2. cur'[d] # Billing
    BY <2>1 DEF Lifecycle, Billing
  <2>3. Unwritten(d)'
    BY <2>2 DEF Unwritten
  <2>4. \A c \in Charges : ToCharge(d, c)' => ToCharge(d, c)
    BY <2>1, <2>2 DEF ToCharge, Accrued
  <2>5. \A c \in Charges : Fair(d, charges[c], charges'[c], ToCharge(d, c), ToCharge(d, c)')
    BY <1>0, <2>1, <2>4 DEF Fair
  <2>6. \A p, q \in batch[d] : IsNext(d, p) /\ IsNext(d, q) => p = q
    BY <1>0 DEF IsNext, TypeOK, Positions
  <2>7. ASSUME NEW k \in Codes
        PROVE  Fair(d, opened[k], opened'[k], ToOpen(d, k), ToOpen(d, k)')
    <3>1. CASE Clear(d)
      <4>1. opened'[k] = opened[k] \/ opened'[k] = 0
        BY <1>0, <3>1 DEF Clear, SpineTypeOK
      <4>2. step' = step /\ step[d] = "work"
        BY <3>1 DEF Clear
      <4>3. ~ToOpen(d, k)'
        BY <4>2 DEF ToOpen
      <4> QED BY <1>0, <4>1, <4>3 DEF Fair
    <3>2. CASE LookForOpen(d)
      <4>1. PICK p \in batch[d] : At(d, Lifecycle, p) /\ Raises(event[p]) # None
                                  /\ saw'[d] = (opened[Raises(event[p])] > 0)
        BY <1>0, <3>2 DEF LookForOpen, SpineTypeOK
      <4>2. opened' = opened
        BY <3>2 DEF LookForOpen, dataVars
      <4>3. ToOpen(d, k)' => opened[k] = 0
        <5> SUFFICES ASSUME ToOpen(d, k)' PROVE opened[k] = 0
          OBVIOUS
        <5>1. PICK q \in batch[d] : IsNext(d, q) /\ Raises(event[q]) = k
          BY <2>1 DEF ToOpen, IsNext
        <5>2. q = p
          BY <2>6, <4>1, <5>1 DEF At
        <5>3. ~(opened[k] > 0)
          BY <4>1, <5>1, <5>2 DEF ToOpen
        <5> QED BY <1>0, <5>3
      <4> QED BY <1>0, <4>2, <4>3 DEF Fair
    <3>3. CASE Raise(d)
      <4>1. PICK p \in batch[d] :
              /\ At(d, Lifecycle, p) /\ step[d] = "raise"
              /\ opened' = [opened EXCEPT ![Raises(event[p])] = IF saw[d] THEN @ ELSE @ + 1]
        BY <3>3 DEF Raise
      <4>2. step'[d] = "begin"
        BY <1>0, <3>3 DEF Raise, SpineTypeOK
      <4>3. ~ToOpen(d, k)'
        BY <4>2 DEF ToOpen
      <4>4. CASE k = Raises(event[p]) /\ ~saw[d]
        <5>1. ToOpen(d, k)
          BY <4>1, <4>4 DEF ToOpen, At
        <5>2. opened'[k] = opened[k] + 1
          BY <1>0, <4>1, <4>4 DEF SpineTypeOK
        <5> QED BY <1>0, <4>3, <5>1, <5>2 DEF Fair
      <4>5. CASE ~(k = Raises(event[p]) /\ ~saw[d])
        <5>1. opened'[k] = opened[k]
          BY <1>0, <4>1, <4>5 DEF SpineTypeOK
        <5> QED BY <1>0, <4>3, <5>1 DEF Fair
      <4> QED BY <4>4, <4>5
    <3> QED BY <1>7, <3>1, <3>2, <3>3
  <2> QED BY <2>3, <2>5, <2>7
<1>8. ASSUME NEW d \in Dispatchers, StartAccrual(d) PROVE Even(d)
  <2>1. PICK p \in batch[d] : StartAccrual(d)!(p)
    BY <1>8 DEF StartAccrual
  <2>2. /\ charges' = charges /\ opened' = opened /\ event' = event /\ open' = open /\ open[d] = {}
        /\ step'[d] = "work"
    BY <1>0, <2>1 DEF Begin, At, vars, dataVars, WorkSound, SpineTypeOK
  <2>3. todo'[d] = IF AlreadyAccrued(event[p]) THEN {} ELSE AccrualOf(event[p])
    BY <1>0, <2>1 DEF Begin, SpineTypeOK
  <2>4. event[p] \in Recordable
    BY <1>0 DEF SpineTypeOK, Recordable, TypeOK
  <2>5. \A c \in todo'[d] : c \in Charges /\ ~(charges[c] > 0)
    BY <2>3, <2>4, WorkType DEF AlreadyAccrued
  <2>6. Unwritten(d)'
    BY <2>2 DEF Unwritten
  <2>7. \A c \in Charges : ToCharge(d, c)' => charges'[c] = 0
    BY <1>0, <2>2, <2>5 DEF ToCharge
  <2>8. \A c \in Charges : Fair(d, charges[c], charges'[c], ToCharge(d, c), ToCharge(d, c)')
    BY <1>0, <2>2, <2>7 DEF Fair
  <2>9. \A k \in Codes : Fair(d, opened[k], opened'[k], ToOpen(d, k), ToOpen(d, k)')
    BY <1>0, <2>2 DEF Fair, ToOpen
  <2> QED BY <2>6, <2>8, <2>9
<1>9. ASSUME NEW d \in Dispatchers, InsertCharge(d) PROVE Even(d)
  <2>1. PICK c \in todo[d] : /\ WriterStamp(d)
                             /\ event' = [event EXCEPT ![clock + 1] = Accrued(c)]
                             /\ todo' = [todo EXCEPT ![d] = @ \ {c}]
    BY <1>9 DEF InsertCharge
  <2>2. /\ cur[d] = Billing /\ step[d] = "work" /\ charges' = charges /\ opened' = opened /\ cur' = cur
        /\ step'[d] = "commit"
    BY <1>0, <1>9, <2>1 DEF InsertCharge, dataVars, WriterStamp, dispatchVars, SpineTypeOK
  <2>3. c \in Charges
    BY <1>0, <2>2 DEF WorkSound, Work, Lifecycle, Billing
  <2>4. open[d] = {} /\ open'[d] = {clock + 1}
    BY <1>0, <1>9, <2>1 DEF InsertCharge, WorkSound, WriterStamp, Stamp, TypeOK, LogTypeOK
  <2>5. event'[clock + 1] = Accrued(c)
    BY <1>0, <2>1, <2>3, Appends DEF Recordable
  <2>6. todo'[d] = todo[d] \ {c}
    BY <1>0, <2>1 DEF SpineTypeOK
  <2>7. Unwritten(d)'
    BY <2>4, <2>5, <2>6 DEF Unwritten, Accrued
  <2>8. \A x \in Charges : ToCharge(d, x)' => ToCharge(d, x)
    BY <2>2, <2>4, <2>5, <2>6 DEF ToCharge, Accrued
  <2>9. \A x \in Charges : Fair(d, charges[x], charges'[x], ToCharge(d, x), ToCharge(d, x)')
    BY <1>0, <2>2, <2>8 DEF Fair
  <2>10. \A k \in Codes : Fair(d, opened[k], opened'[k], ToOpen(d, k), ToOpen(d, k)')
    BY <1>0, <2>2 DEF Fair, ToOpen
  <2> QED BY <2>7, <2>9, <2>10
<1> HIDE DEF Even
<1> QED BY <1>1, <1>2, <1>3, <1>4, <1>5, <1>6, <1>7, <1>8, <1>9, <1>b DEF CrossNext, SpineNext, SpineTick, HandlerStep

\* However many instances drain the log at once, each puts a charge in once at most, and
\* opens a code once at most while it is open, whatever departures and exceptions arrive,
\* wherever handlers fail or restart between their statements, and whichever way a
\* transaction ended that its instance never heard of.  So as long as one instance alone
\* has run, no charge is accrued twice.
THEOREM OncePerInstance == CrossSpec => []RowsPerInstance
<1>1. CrossInit => OnceInv
  <2> SUFFICES ASSUME CrossInit PROVE OnceInv
    OBVIOUS
  <2>0. SpineInit /\ SpineInv /\ ran = {}
    BY SpineInitInv DEF CrossInit
  <2>1. \A d \in Dispatchers : step[d] = "begin" /\ open[d] = {} /\ pc[d] = "idle"
    BY <2>0 DEF SpineInit, Init, LogInit
  <2>2. \A d \in Dispatchers : Unwritten(d)
    BY <2>1 DEF Unwritten
  <2>3. \A c, k : Charging(c) = {} /\ Opening(k) = {}
    BY <2>1 DEF Charging, Opening, ToCharge, ToOpen
  <2>4. Cardinality(ran) = 0 /\ IsFiniteSet(ran) /\ \A c, k : Cardinality(Charging(c)) = 0 /\ Cardinality(Opening(k)) = 0
    BY <2>0, <2>3, FS_EmptySet
  <2>5. /\ \A c \in Charges : charges[c] = 0
        /\ \A k \in Codes : opened[k] = 0
    BY <2>0 DEF SpineInit
  <2>6. /\ \A c \in Charges : charges[c] + Cardinality(Charging(c)) <= Cardinality(ran)
        /\ \A k \in Codes : opened[k] + Cardinality(Opening(k)) <= Cardinality(ran)
    BY <2>4, <2>5
  <2>7. RanSound
    BY <2>0, <2>1, <2>4 DEF RanSound
  <2> QED BY <2>0, <2>2, <2>6, <2>7 DEF OnceInv
<1>2. OnceInv => RowsPerInstance
  <2> SUFFICES ASSUME OnceInv PROVE RowsPerInstance
    OBVIOUS
  <2>1. /\ \A c \in Charges : charges[c] \in Nat /\ Cardinality(Charging(c)) \in Nat
        /\ \A k \in Codes : opened[k] \in Nat /\ Cardinality(Opening(k)) \in Nat
        /\ Cardinality(ran) \in Nat
    <3>1. \A c, k : Charging(c) \subseteq ran /\ Opening(k) \subseteq ran
      BY WritersRan DEF OnceInv
    <3>2. \A c, k : IsFiniteSet(Charging(c)) /\ IsFiniteSet(Opening(k))
      BY <3>1, FS_Subset DEF OnceInv, RanSound
    <3> QED BY <3>2, FS_CardinalityType DEF OnceInv, SpineInv, SpineTypeOK, RanSound
  <2> QED BY <2>1 DEF OnceInv, RowsPerInstance
<1> QED BY <1>1, <1>2, OnceNextInv, PTL DEF CrossSpec

-----------------------------------------------------------------------------
(* Charges, their events and the ledger, whatever the number of instances. *)

AccruedAt(S, c) == {p \in S : event[p] = Accrued(c)}

\* What the ledger sink has left of the event it is at, and what it has done.
LedgerSound(d) ==
  cur[d] = Ledger /\ step[d] # "begin" =>
    \A p \in batch[d] : IsNext(d, p) =>
      /\ todo[d] \subseteq Mapped(event[p])
      /\ \A t \in Mapped(event[p]) \ todo[d] : <<p, t>> \in ledger

ChargesSound == \A c \in Charges : charges[c] = Cardinality(AccruedAt(committed, c))

RowsSound ==
  \A p \in Positions : \A t \in LedgerTypes :
    /\ <<p, t>> \in ledger => p \in committed /\ t \in Mapped(event[p])
    /\ p \in handled[Ledger] /\ t \in Mapped(event[p]) => <<p, t>> \in ledger

OutsideSoundly == \A w \in Outside : \A p \in open[w], c \in Charges : event[p] # Accrued(c)

BooksInv ==
  /\ SpineInv
  /\ ChargesSound
  /\ RowsSound
  /\ OutsideSoundly
  /\ \A d \in Dispatchers : LedgerSound(d)

\* A commit adds to the charges what it adds to the visible events.
LEMMA ChargesCommit ==
  ASSUME SpineInv, NEW d \in Dispatchers, CommitRows(d), ChargesSound, event' = event
  PROVE  ChargesSound'
<1> SUFFICES ASSUME NEW c \in Charges
             PROVE  charges'[c] = Cardinality(AccruedAt(committed, c)')
  BY DEF ChargesSound
<1>0. TypeOK /\ LogSound /\ d \in Writers
  BY DEF SpineInv, DispatchInv
<1>1. committed' = committed \cup open[d] /\ open[d] \cap committed = {}
  BY <1>0 DEF CommitRows, WriterCommit, Commit, LogSound
<1> DEFINE A == AccruedAt(committed, c)
           B == AccruedAt(open[d], c)
<1>2. AccruedAt(committed, c)' = A \cup B /\ A \cap B = {}
  BY <1>1 DEF AccruedAt
<1>3. IsFiniteSet(A) /\ IsFiniteSet(B)
  <2>1. committed \subseteq 1 .. clock /\ open[d] \subseteq 1 .. clock /\ clock \in Nat
    BY <1>0, EventLogAssumption DEF TypeOK, LogTypeOK
  <2>2. IsFiniteSet(1 .. clock)
    BY <2>1, FS_Interval
  <2>3. A \subseteq 1 .. clock /\ B \subseteq 1 .. clock
    BY <2>1 DEF AccruedAt
  <2> HIDE DEF A, B
  <2> QED BY <2>2, <2>3, FS_Subset
<1>4. charges'[c] = Cardinality(A) + Cardinality(B)
  BY DEF CommitRows, ChargesSound, AccruedAt
<1> HIDE DEF A, B
<1>5. Cardinality(A) \in Nat /\ Cardinality(B) \in Nat /\ Cardinality(A \cap B) = 0
  BY <1>2, <1>3, FS_CardinalityType, FS_EmptySet
<1>6. Cardinality(A \cup B) = Cardinality(A) + Cardinality(B) - Cardinality(A \cap B)
  BY <1>3, FS_Union
<1> QED BY <1>2, <1>4, <1>5, <1>6

\* A step that writes no charge leaves the events of the charges as they are.
LEMMA ChargesStay ==
  ASSUME ChargesSound, charges' = charges, committed \subseteq committed',
         \A p \in committed : event'[p] = event[p],
         \A p \in committed' \ committed, c \in Charges : event'[p] # Accrued(c)
  PROVE  ChargesSound'
<1> SUFFICES ASSUME NEW c \in Charges
             PROVE  charges'[c] = Cardinality(AccruedAt(committed, c)')
  BY DEF ChargesSound
<1>1. AccruedAt(committed, c)' = AccruedAt(committed, c)
  BY DEF AccruedAt, Accrued
<1> QED BY <1>1 DEF ChargesSound

\* A step that writes no row of the ledger and finishes nothing for the sink.
LEMMA RowsStay ==
  ASSUME SpineInv, RowsSound, ledger' = ledger, handled'[Ledger] = handled[Ledger],
         committed \subseteq committed', \A p \in committed : event'[p] = event[p]
  PROVE  RowsSound'
<1>1. handled[Ledger] \subseteq committed
  BY DEF SpineInv, DispatchInv, HandledSound, Handlers, Ledger
<1> QED BY <1>1 DEF RowsSound

\* A step elsewhere leaves what the ledger sink has left to do.
LEMMA LedgerStays ==
  ASSUME SpineInv, NEW d \in Dispatchers, LedgerSound(d), ledger \subseteq ledger',
         cur'[d] = cur[d], step'[d] = step[d], todo'[d] = todo[d], batch'[d] = batch[d],
         \A p \in committed : event'[p] = event[p]
  PROVE  LedgerSound(d)'
<1>1. batch[d] \subseteq committed
  BY DEF SpineInv, DispatchInv, BatchSound
<1> QED BY <1>1 DEF LedgerSound, IsNext

\* A batch has one next row.
LEMMA NextIsOne ==
  ASSUME TypeOK, NEW d \in Dispatchers, NEW p \in batch[d], NEW q \in batch[d],
         IsNext(d, p), IsNext(d, q)
  PROVE  p = q
<1>1. p \in Nat /\ q \in Nat
  BY EventLogAssumption DEF TypeOK, Positions
<1> QED BY <1>1 DEF IsNext

\* BooksInv is inductive, whatever the number of instances.
LEMMA BooksNextInv == BooksInv /\ [SpineNext]_spineVars => BooksInv'
<1> SUFFICES ASSUME BooksInv, [SpineNext]_spineVars
             PROVE  /\ ChargesSound' /\ RowsSound' /\ OutsideSoundly'
                    /\ \A d \in Dispatchers : LedgerSound(d)'
  BY SpineNextInv DEF BooksInv
<1> DEFINE Goal == /\ ChargesSound' /\ RowsSound' /\ OutsideSoundly'
                   /\ \A d \in Dispatchers : LedgerSound(d)'
<1>0. /\ TypeOK /\ SpineTypeOK /\ LogSound /\ SpineInv
      /\ ChargesSound /\ RowsSound /\ OutsideSoundly
      /\ \A d \in Dispatchers : LedgerSound(d) /\ WorkSound(d) /\ batch[d] \subseteq committed
                                /\ d \in Writers
  BY DEF BooksInv, SpineInv, DispatchInv, BatchSound
<1>a. committed \subseteq Positions /\ clock + 1 \notin committed
      /\ \A w \in Writers : open[w] \subseteq Positions /\ clock + 1 \notin open[w]
  BY <1>0, EventLogAssumption DEF TypeOK, LogTypeOK, Positions
<1>b. Ledger \in Handlers /\ Ledger # Lifecycle /\ Ledger # Billing /\ Lifecycle \in Handlers
  BY DEF Ledger, Lifecycle, Billing, Handlers
\* What the writing of a charge or an arrival changes of the events.
<1>c. ASSUME NEW w \in Writers, NEW e \in Recordable, WriterStamp(w),
             event' = [event EXCEPT ![clock + 1] = e]
      PROVE  /\ \A p \in committed : event'[p] = event[p]
             /\ \A v \in Writers : \A p \in open[v] : event'[p] = event[p]
             /\ event'[clock + 1] = e
  <2>1. \A p \in Positions : p # clock + 1 => event'[p] = event[p]
    BY <1>0, <1>c, Appends
  <2>2. event'[clock + 1] = e
    BY <1>0, <1>c, Appends
  <2> QED BY <1>a, <2>1, <2>2
\* A step of an instance that stays in the handler, or leaves it.
<1>d. ASSUME NEW d \in Dispatchers, Elsewhere(d), LedgerSound(d)', ledger \subseteq ledger',
             \A p \in committed : event'[p] = event[p]
      PROVE  \A e \in Dispatchers : LedgerSound(e)'
  <2>1. ASSUME NEW e \in Dispatchers, e # d PROVE LedgerSound(e)'
    BY <1>0, <1>d, <2>1, LedgerStays DEF Elsewhere
  <2> QED BY <1>d, <2>1
\* A step that leaves the log and what the ledger sink has done alone.
<1>e. ASSUME NEW d \in Dispatchers, Elsewhere(d), LedgerSound(d)', charges' = charges,
             event' = event, committed' = committed, ledger' = ledger,
             \A w \in Outside : open'[w] = open[w], handled'[Ledger] = handled[Ledger]
      PROVE  Goal
  <2>1. ChargesSound'
    BY <1>0, <1>e, ChargesStay
  <2>2. RowsSound'
    BY <1>0, <1>e, RowsStay
  <2>3. OutsideSoundly'
    BY <1>0, <1>e DEF OutsideSoundly
  <2> QED BY <2>1, <2>2, <2>3, <1>d, <1>e
<1>1. CASE UNCHANGED spineVars
  BY <1>0, <1>1, ChargesStay, RowsStay, LedgerStays
     DEF spineVars, vars, dataVars, localVars, OutsideSoundly
<1>2. ASSUME NEW w \in Outside, Arrive(w) \/ ArrivalCommits(w) \/ ArrivalRollsBack(w)
      PROVE  Goal
  <2>1. w \in Writers /\ Elsewhere(w) /\ w \notin Dispatchers
    BY <1>0, <1>2, OutsideSound DEF Outside
  <2>2. charges' = charges /\ ledger' = ledger /\ handled' = handled
    BY <1>2 DEF Arrive, ArrivalCommits, ArrivalRollsBack, WriterStamp, WriterCommit, WriterRollback,
                dispatchVars, dataVars
  <2>3. CASE Arrive(w)
    <3>1. PICK e \in Arrivals : WriterStamp(w) /\ event' = [event EXCEPT ![clock + 1] = e]
      BY <2>3 DEF Arrive
    <3>2. e \in Recordable /\ \A c \in Charges : e # Accrued(c)
      BY DEF Recordable
    <3>3. committed' = committed /\ open' = [open EXCEPT ![w] = @ \cup {clock + 1}]
      BY <3>1 DEF WriterStamp, Stamp
    <3>4. /\ \A p \in committed : event'[p] = event[p]
          /\ \A v \in Writers : \A p \in open[v] : event'[p] = event[p]
          /\ event'[clock + 1] = e
      BY <2>1, <3>1, <3>2, <1>c
    <3>5. ChargesSound'
      BY <1>0, <2>2, <3>3, <3>4, ChargesStay
    <3>6. RowsSound'
      BY <1>0, <2>2, <3>3, <3>4, RowsStay
    <3>7. OutsideSoundly'
      <4>1. ASSUME NEW v \in Outside, NEW p \in open'[v], NEW c \in Charges PROVE event'[p] # Accrued(c)
        <5>1. v \in Writers /\ (p \in open[v] \/ p = clock + 1)
          BY <1>0, <3>3, <4>1 DEF Outside, TypeOK, LogTypeOK
        <5>2. CASE p \in open[v]
          BY <5>1, <5>2, <3>4, <1>0 DEF OutsideSoundly
        <5>3. CASE p = clock + 1
          BY <5>3, <3>2, <3>4
        <5> QED BY <5>1, <5>2, <5>3
      <4> QED BY <4>1 DEF OutsideSoundly, Accrued
    <3>8. \A d \in Dispatchers : LedgerSound(d)'
      BY <1>0, <2>1, <2>2, <3>4, LedgerStays DEF Elsewhere
    <3> QED BY <3>5, <3>6, <3>7, <3>8
  <2>4. CASE ArrivalCommits(w) \/ ArrivalRollsBack(w)
    <3>1. event' = event /\ committed \subseteq committed' /\ committed' \subseteq committed \cup open[w]
          /\ \A v \in Writers : open'[v] \subseteq open[v]
      BY <1>0, <2>1, <2>4 DEF ArrivalCommits, ArrivalRollsBack, WriterCommit, WriterRollback, Commit,
                Rollback, TypeOK, LogTypeOK
    <3>2. ChargesSound'
      BY <1>0, <2>2, <3>1, ChargesStay DEF OutsideSoundly
    <3>3. RowsSound'
      BY <1>0, <2>2, <3>1, RowsStay
    <3>4. OutsideSoundly'
      BY <1>0, <3>1 DEF OutsideSoundly, Outside
    <3>5. \A d \in Dispatchers : LedgerSound(d)'
      BY <1>0, <2>1, <2>2, <3>1, LedgerStays DEF Elsewhere
    <3> QED BY <3>2, <3>3, <3>4, <3>5
  <2> QED BY <1>2, <2>3, <2>4
<1>3. ASSUME NEW d \in Dispatchers, Around(d) \/ TickFault(d) \/ OrphanRollsBack(d) PROVE Goal
  <2>1. Elsewhere(d)
    BY <1>0, <1>3, TickSound
  <2>2. charges' = charges /\ event' = event /\ ledger' = ledger
    BY <1>3 DEF Around, TickFault, OrphanRollsBack, dataVars
  <2>3. committed' = committed /\ handled' = handled
    BY <1>3 DEF Around, TickFault, OrphanRollsBack, StartTick, ReadOffset, SelectBatch, DrainDone,
                Advance, Fault, Abandon, logVars, WriterRollback, Rollback, dispatchVars
  <2>4. \A w \in Outside : open'[w] = open[w]
    BY <1>0, <1>3 DEF Around, TickFault, OrphanRollsBack, StartTick, ReadOffset, SelectBatch, DrainDone,
                Advance, Fault, Abandon, logVars, WriterRollback, Rollback, Outside, TypeOK, LogTypeOK
  <2>5. LedgerSound(d)'
    <3>1. CASE Around(d)
      <4>1. step' = step /\ pc[d] # "handle"
        BY <3>1 DEF Around, localVars, StartTick, ReadOffset, SelectBatch, DrainDone, Advance
      <4> QED BY <4>1, <1>0 DEF LedgerSound, WorkSound
    <3>2. CASE TickFault(d)
      <4>1. step'[d] = "begin"
        BY <3>2, <1>0 DEF TickFault, SpineTypeOK
      <4> QED BY <4>1 DEF LedgerSound
    <3>3. CASE OrphanRollsBack(d)
      BY <1>0, <2>2, <3>3, LedgerStays DEF OrphanRollsBack, WriterRollback, dispatchVars, localVars
    <3> QED BY <1>3, <3>1, <3>2, <3>3
  <2> QED BY <1>e, <2>1, <2>2, <2>3, <2>4, <2>5
<1>4. ASSUME NEW d \in Dispatchers, OrphanCommits(d) \/ CommitCharge(d) PROVE Goal
  <2>1. Elsewhere(d)
    BY <1>0, <1>4, TickSound, HandlerSound DEF HandlerStep
  <2>2. CommitRows(d) /\ event' = event /\ ledger' = ledger
    BY <1>4 DEF OrphanCommits, CommitCharge
  <2>3. handled' = handled /\ cur' = cur /\ batch' = batch /\ committed \subseteq committed'
    BY <2>2 DEF CommitRows, WriterCommit, Commit
  <2>4. \A w \in Outside : open'[w] = open[w]
    BY <1>0, <2>2 DEF CommitRows, WriterCommit, Commit, Outside, TypeOK, LogTypeOK
  <2>5. ChargesSound'
    BY <1>0, <2>2, ChargesCommit
  <2>6. RowsSound'
    BY <1>0, <2>2, <2>3, RowsStay
  <2>7. LedgerSound(d)'
    <3>1. CASE OrphanCommits(d)
      BY <1>0, <2>2, <2>3, <3>1, LedgerStays DEF OrphanCommits, localVars
    <3>2. CASE CommitCharge(d)
      BY <1>0, <1>b, <2>3, <3>2 DEF CommitCharge, WorkSound, LedgerSound
    <3> QED BY <1>4, <3>1, <3>2
  <2> QED BY <1>0, <1>d, <2>1, <2>2, <2>4, <2>5, <2>6, <2>7 DEF OutsideSoundly
<1>5. ASSUME NEW d \in Dispatchers, SetStatus(d) \/ Clear(d) \/ LookForOpen(d) \/ Raise(d) \/ StartAccrual(d)
      PROVE  Goal
  <2>1. Elsewhere(d)
    BY <1>0, <1>5, HandlerSound DEF HandlerStep
  <2>2. charges' = charges /\ event' = event /\ ledger' = ledger /\ cur' = cur
        /\ committed' = committed /\ open' = open
    BY <1>5 DEF SetStatus, Clear, LookForOpen, Raise, StartAccrual, Begin, Handle, dataVars, vars, logVars
  <2>3. cur[d] # Ledger
    BY <1>b, <1>5 DEF SetStatus, Clear, LookForOpen, Raise, StartAccrual, At
  <2>4. handled'[Ledger] = handled[Ledger]
    <3>1. handled' = handled \/ \E S : handled' = [handled EXCEPT ![cur[d]] = S]
      BY <1>5 DEF SetStatus, Clear, LookForOpen, Raise, StartAccrual, Begin, Handle, vars
    <3> QED BY <3>1, <2>3, <1>0, <1>b DEF TypeOK
  <2>5. LedgerSound(d)'
    BY <2>2, <2>3 DEF LedgerSound
  <2> QED BY <1>e, <2>1, <2>2, <2>4, <2>5
<1>6. ASSUME NEW d \in Dispatchers, InsertCharge(d) PROVE Goal
  <2>1. Elsewhere(d)
    BY <1>0, <1>6, HandlerSound DEF HandlerStep
  <2>2. PICK c \in todo[d] : WriterStamp(d) /\ event' = [event EXCEPT ![clock + 1] = Accrued(c)]
    BY <1>6 DEF InsertCharge
  <2>3. cur[d] = Billing /\ cur' = cur /\ charges' = charges /\ ledger' = ledger /\ handled' = handled
        /\ committed' = committed
    BY <1>6, <2>2 DEF InsertCharge, dataVars, WriterStamp, Stamp, dispatchVars
  <2>4. c \in Charges
    BY <1>0, <1>6, <2>3 DEF InsertCharge, WorkSound, Work, Lifecycle, Billing
  <2>5. /\ \A p \in committed : event'[p] = event[p]
        /\ \A v \in Writers : \A p \in open[v] : event'[p] = event[p]
    BY <1>0, <1>c, <2>2, <2>4 DEF Recordable
  <2>6. \A w \in Outside : w \in Writers /\ open'[w] = open[w]
    BY <1>0, <2>2 DEF WriterStamp, Stamp, Outside, TypeOK, LogTypeOK
  <2>7. ChargesSound' /\ RowsSound'
    BY <1>0, <2>3, <2>5, ChargesStay, RowsStay
  <2>8. OutsideSoundly'
    BY <1>0, <2>5, <2>6 DEF OutsideSoundly, Accrued
  <2>9. LedgerSound(d)'
    BY <1>b, <2>3 DEF LedgerSound
  <2> QED BY <1>d, <2>1, <2>3, <2>5, <2>7, <2>8, <2>9
<1>7. ASSUME NEW d \in Dispatchers, StartLedger(d) PROVE Goal
  <2>1. Elsewhere(d)
    BY <1>0, <1>7, HandlerSound DEF HandlerStep
  <2>2. PICK p \in batch[d] : StartLedger(d)!(p)
    BY <1>7 DEF StartLedger
  <2>3. charges' = charges /\ event' = event /\ ledger' = ledger /\ cur' = cur /\ batch' = batch
        /\ committed' = committed /\ open' = open /\ handled' = handled
        /\ todo'[d] = Mapped(event[p]) /\ IsNext(d, p)
    BY <1>0, <2>2 DEF Begin, At, dataVars, vars, SpineTypeOK
  <2>4. \A q \in batch[d] : IsNext(d, q) => q = p
    BY <1>0, <2>3, NextIsOne
  <2>5. LedgerSound(d)'
    BY <2>3, <2>4 DEF LedgerSound, IsNext
  <2> QED BY <1>e, <2>1, <2>3, <2>5
<1>8. ASSUME NEW d \in Dispatchers, InsertLedger(d) PROVE Goal
  <2>1. Elsewhere(d)
    BY <1>0, <1>8, HandlerSound DEF HandlerStep
  <2>2. PICK p \in batch[d], t \in todo[d] :
          /\ At(d, Ledger, p) /\ step[d] = "work"
          /\ ledger' = ledger \cup {<<p, t>>}
          /\ todo' = [todo EXCEPT ![d] = @ \ {t}]
    BY <1>8 DEF InsertLedger
  <2>3. charges' = charges /\ event' = event /\ cur' = cur /\ batch' = batch /\ step' = step
        /\ committed' = committed /\ open' = open /\ handled' = handled /\ todo'[d] = todo[d] \ {t}
    BY <1>0, <1>8, <2>2 DEF InsertLedger, dataVars, vars, SpineTypeOK
  <2>4. \A q \in batch[d] : IsNext(d, q) => q = p
    BY <1>0, <2>2, NextIsOne DEF At
  <2>5. t \in Mapped(event[p]) /\ p \in committed
    BY <1>0, <2>2 DEF LedgerSound, At
  <2>6. RowsSound'
    BY <1>0, <2>2, <2>3, <2>5 DEF RowsSound
  <2>7. LedgerSound(d)'
    BY <1>0, <2>2, <2>3, <2>4 DEF LedgerSound, IsNext
  <2>8. ChargesSound' /\ OutsideSoundly'
    BY <1>0, <2>3, ChargesStay DEF OutsideSoundly
  <2> QED BY <1>d, <2>1, <2>2, <2>3, <2>6, <2>7, <2>8
<1>9. ASSUME NEW d \in Dispatchers, Return(d) PROVE Goal
  <2>1. Elsewhere(d)
    BY <1>0, <1>9, HandlerSound DEF HandlerStep
  <2>2. PICK p \in batch[d] : IsNext(d, p) /\ handled' = [handled EXCEPT ![cur[d]] = @ \cup {p}]
    BY <1>9 DEF Return, Handle
  <2>3. charges' = charges /\ event' = event /\ ledger' = ledger /\ cur' = cur
        /\ committed' = committed /\ open' = open /\ step[d] = "work" /\ todo[d] = {}
        /\ step'[d] = "begin"
    BY <1>0, <1>9 DEF Return, Handle, dataVars, logVars, SpineTypeOK
  <2>4. CASE cur[d] = Ledger
    <3>1. handled'[Ledger] = handled[Ledger] \cup {p}
      BY <1>0, <1>b, <2>2, <2>4 DEF TypeOK
    <3>2. \A t \in Mapped(event[p]) : <<p, t>> \in ledger
      BY <1>0, <2>2, <2>3, <2>4 DEF LedgerSound
    <3>3. RowsSound'
      BY <1>0, <2>3, <3>1, <3>2 DEF RowsSound
    <3>4. ChargesSound' /\ OutsideSoundly'
      BY <1>0, <2>3, ChargesStay DEF OutsideSoundly
    <3>5. LedgerSound(d)'
      BY <2>3 DEF LedgerSound
    <3> QED BY <1>d, <2>1, <2>3, <3>3, <3>4, <3>5
  <2>5. CASE cur[d] # Ledger
    <3>1. handled'[Ledger] = handled[Ledger]
      BY <1>0, <1>b, <2>2, <2>5 DEF TypeOK
    <3>2. LedgerSound(d)'
      BY <2>3 DEF LedgerSound
    <3> QED BY <1>e, <2>1, <2>3, <3>1, <3>2
  <2> QED BY <2>4, <2>5
<1> QED BY <1>1, <1>2, <1>3, <1>4, <1>5, <1>6, <1>7, <1>8, <1>9 DEF SpineNext, SpineTick, HandlerStep

\* The charges, their charge.accrued events and the ledger agree, whatever the number
\* of instances and wherever a handler stops: a row and its event are one transaction,
\* and the sink returns from an event only when all its rows are in the ledger.
THEOREM BooksReconcile == SpineSpec => []LedgerReconciles
<1>1. SpineInit => BooksInv
  <2> SUFFICES ASSUME SpineInit
               PROVE  ChargesSound /\ RowsSound /\ OutsideSoundly /\ \A d \in Dispatchers : LedgerSound(d)
    BY SpineInitInv DEF BooksInv
  <2>1. \A c : AccruedAt(committed, c) = {}
    BY DEF SpineInit, Init, LogInit, AccruedAt
  <2>2. ChargesSound
    BY <2>1, FS_EmptySet DEF ChargesSound, SpineInit
  <2>3. handled[Ledger] = {}
    BY DEF SpineInit, Init, Ledger, Handlers
  <2> QED BY <2>2, <2>3 DEF SpineInit, Init, LogInit, RowsSound, OutsideSoundly, Outside, LedgerSound
<1>2. BooksInv => LedgerReconciles
  BY DEF BooksInv, ChargesSound, AccruedAt, RowsSound, LedgerReconciles
<1> QED BY <1>1, <1>2, BooksNextInv, PTL DEF SpineSpec

-----------------------------------------------------------------------------
(* The replay.  It is a recursive function, and what it computes is found  *)
(* by looking at the least place where it would not be so.                 *)

\* The states of a replay of the positions of S, where E says what was recorded.
ReplayTo(N, S, E, f) ==
  f = [n \in 0 .. N |-> IF n = 0 THEN Fresh
                        ELSE IF n \in S THEN ApplyEvent(f[n - 1], E[n])
                        ELSE f[n - 1]]

States(S) == CHOOSE f : ReplayTo(MaxEvents, S, event, f)

\* The recursion of the replay has a solution, however long the log.
LEMMA ReplayExists ==
  ASSUME NEW S, NEW E
  PROVE  \A N \in Nat : \E f : ReplayTo(N, S, E, f)
<1> DEFINE Bad == {N \in Nat : ~ \E f : ReplayTo(N, S, E, f)}
<1>1. SUFFICES ASSUME Bad # {} PROVE FALSE
  OBVIOUS
<1>2. PICK N \in Bad : \A M \in Bad : N <= M
  <2> HIDE DEF Bad
  <2>1. Bad \in SUBSET Nat
    BY DEF Bad
  <2> QED BY <1>1, <2>1, LeastNumber
<1>3. N # 0
  <2> SUFFICES ASSUME N = 0 PROVE FALSE
    OBVIOUS
  <2> DEFINE f == [n \in 0 .. 0 |-> Fresh]
  <2>1. ReplayTo(0, S, E, f)
    BY DEF ReplayTo
  <2> HIDE DEF f
  <2> QED BY <2>1
<1>4. N \in Nat /\ N - 1 \in Nat /\ N - 1 \notin Bad
  <2>1. N \in Nat
    OBVIOUS
  <2> HIDE DEF Bad
  <2> QED BY <1>2, <1>3, <2>1
<1>5. PICK g : ReplayTo(N - 1, S, E, g)
  BY <1>4
<1> DEFINE f == [n \in 0 .. N |->
                   IF n = N THEN IF N \in S THEN ApplyEvent(g[N - 1], E[N]) ELSE g[N - 1]
                   ELSE g[n]]
<1>6. \A n \in 0 .. N - 1 : f[n] = g[n]
  BY <1>4
<1>7. g = [n \in 0 .. N - 1 |-> IF n = 0 THEN Fresh
                                ELSE IF n \in S THEN ApplyEvent(g[n - 1], E[n])
                                ELSE g[n - 1]]
  BY <1>5 DEF ReplayTo
<1>8. \A n \in 0 .. N : f[n] = IF n = 0 THEN Fresh
                               ELSE IF n \in S THEN ApplyEvent(f[n - 1], E[n])
                               ELSE f[n - 1]
  <2> HIDE DEF Bad
  <2> SUFFICES ASSUME NEW n \in 0 .. N
               PROVE  f[n] = IF n = 0 THEN Fresh
                             ELSE IF n \in S THEN ApplyEvent(f[n - 1], E[n])
                             ELSE f[n - 1]
    OBVIOUS
  <2>1. CASE n = N
    <3>1. f[N] = IF N \in S THEN ApplyEvent(g[N - 1], E[N]) ELSE g[N - 1]
      BY <1>4
    <3>2. f[N - 1] = g[N - 1]
      BY <1>4, <1>6
    <3> HIDE DEF f
    <3> QED BY <2>1, <3>1, <3>2, <1>3
  <2>2. CASE n # N
    <3>1. n \in 0 .. N - 1 /\ (n # 0 => n - 1 \in 0 .. N - 1)
      BY <2>2, <1>4
    <3> HIDE DEF f
    <3> QED BY <3>1, <1>6, <1>7
  <2> QED BY <2>1, <2>2
<1>9. ReplayTo(N, S, E, f)
  <2>1. f = [n \in 0 .. N |-> f[n]]
    OBVIOUS
  <2> HIDE DEF f
  <2> QED BY <1>8, <2>1, Zenon DEF ReplayTo
<1> HIDE DEF f
<1> QED BY <1>9

\* The replay is the last of its states,
LEMMA ReplayIsStates ==
  ASSUME NEW S
  PROVE  Replay(S) = States(S)[MaxEvents]
BY DEF Replay, States, ReplayTo

\* and each state is the one before it, with the event recorded there if it is of S.
LEMMA StatesStep ==
  ASSUME NEW S
  PROVE  /\ States(S)[0] = Fresh
         /\ \A n \in 1 .. MaxEvents :
              States(S)[n] = IF n \in S THEN ApplyEvent(States(S)[n - 1], event[n])
                             ELSE States(S)[n - 1]
<1>1. ReplayTo(MaxEvents, S, event, States(S))
  BY ReplayExists, EventLogAssumption, Zenon DEF States
<1> DEFINE f == States(S)
<1>2. f = [n \in 0 .. MaxEvents |-> IF n = 0 THEN Fresh
                                    ELSE IF n \in S THEN ApplyEvent(f[n - 1], event[n])
                                    ELSE f[n - 1]]
  BY <1>1 DEF ReplayTo
<1> HIDE DEF f
<1>3. f[0] = Fresh /\ \A n \in 1 .. MaxEvents :
         f[n] = IF n \in S THEN ApplyEvent(f[n - 1], event[n]) ELSE f[n - 1]
  BY <1>2, EventLogAssumption
<1> QED BY <1>3 DEF f

\* Two replays of the same positions, by two records that agree on them, agree.
LEMMA SameReplay ==
  ASSUME NEW S, NEW T, NEW f, NEW g, NEW D, NEW E, NEW m \in 0 .. MaxEvents,
         ReplayTo(MaxEvents, S, D, f), ReplayTo(MaxEvents, T, E, g),
         \A n \in 1 .. m : n \in S <=> n \in T, \A n \in S : D[n] = E[n]
  PROVE  f[m] = g[m]
<1> DEFINE Bad == {n \in Nat : n <= m /\ f[n] # g[n]}
<1>0. m \in Nat /\ m <= MaxEvents /\ MaxEvents \in Nat
  BY EventLogAssumption
<1>1. SUFFICES ASSUME Bad # {} PROVE FALSE
  BY <1>0
<1>2. PICK n \in Bad : \A k \in Bad : n <= k
  <2> HIDE DEF Bad
  <2>1. Bad \in SUBSET Nat
    BY DEF Bad
  <2> QED BY <1>1, <2>1, LeastNumber
<1>3. n \in Nat /\ n <= m /\ f[n] # g[n]
  OBVIOUS
<1>4. n # 0
  <2>1. f[0] = Fresh /\ g[0] = Fresh
    BY <1>0 DEF ReplayTo
  <2> QED BY <1>3, <2>1
<1>5. n - 1 \in Nat /\ n - 1 < n /\ n - 1 <= m
  BY <1>0, <1>3, <1>4
<1>6. n - 1 \notin Bad
  <2> HIDE DEF Bad
  <2> QED BY <1>2, <1>3, <1>5
<1>7. f[n - 1] = g[n - 1]
  BY <1>5, <1>6
<1>8. /\ f[n] = IF n \in S THEN ApplyEvent(f[n - 1], D[n]) ELSE f[n - 1]
      /\ g[n] = IF n \in T THEN ApplyEvent(g[n - 1], E[n]) ELSE g[n - 1]
  <2> HIDE DEF Bad
  <2> n \in 0 .. MaxEvents /\ n # 0
    BY <1>0, <1>3, <1>4
  <2>1. f = [i \in 0 .. MaxEvents |-> IF i = 0 THEN Fresh
                              ELSE IF i \in S THEN ApplyEvent(f[i - 1], D[i])
                              ELSE f[i - 1]]
    BY DEF ReplayTo
  <2>2. g = [i \in 0 .. MaxEvents |-> IF i = 0 THEN Fresh
                              ELSE IF i \in T THEN ApplyEvent(g[i - 1], E[i])
                              ELSE g[i - 1]]
    BY DEF ReplayTo
  <2> QED BY <2>1, <2>2
<1>9. n \in 1 .. m
  BY <1>0, <1>3, <1>4
<1> HIDE DEF Bad
<1> QED BY <1>3, <1>7, <1>8, <1>9

\* Past the last of its events a replay stands still.
LEMMA ReplayRests ==
  ASSUME NEW S, NEW m \in 0 .. MaxEvents, \A n \in S : n <= m, S \subseteq Positions
  PROVE  \A k \in m .. MaxEvents : States(S)[k] = States(S)[m]
<1> DEFINE Bad == {n \in Nat : n >= m /\ n <= MaxEvents /\ States(S)[n] # States(S)[m]}
<1>0. m \in Nat /\ m <= MaxEvents /\ MaxEvents \in Nat
  BY EventLogAssumption
<1>1. SUFFICES ASSUME Bad # {} PROVE FALSE
  BY <1>0
<1>2. PICK n \in Bad : \A k \in Bad : n <= k
  <2> HIDE DEF Bad
  <2>1. Bad \in SUBSET Nat
    BY DEF Bad
  <2> QED BY <1>1, <2>1, LeastNumber
<1>3. n \in Nat /\ n >= m /\ n <= MaxEvents /\ States(S)[n] # States(S)[m]
  OBVIOUS
<1>4. n # m
  BY <1>3
<1>5. n \in 1 .. MaxEvents /\ n - 1 \in Nat /\ n - 1 >= m /\ n - 1 <= MaxEvents /\ n - 1 < n /\ n \notin S
  <2> HIDE DEF Bad
  <2>1. n > m
    BY <1>0, <1>3, <1>4
  <2> QED BY <1>0, <1>3, <2>1 DEF Positions
<1>6. n - 1 \notin Bad
  <2> HIDE DEF Bad
  <2> QED BY <1>2, <1>3, <1>5
<1>7. States(S)[n - 1] = States(S)[m]
  BY <1>5, <1>6
<1> HIDE DEF Bad
<1>8. States(S)[n] = States(S)[n - 1]
  BY <1>5, StatesStep
<1> QED BY <1>3, <1>7, <1>8

\* Nothing replayed leaves the shipment as it was booked.
LEMMA ReplayNothing == Replay({}) = Fresh
<1>1. States({})[MaxEvents] = States({})[0]
  BY EventLogAssumption, ReplayRests
<1> QED BY <1>1, ReplayIsStates, StatesStep

\* The events of S that are recorded are what a replay depends on.
LEMMA ReplayUnchanged ==
  ASSUME NEW S, S' = S, \A n \in S : event'[n] = event[n]
  PROVE  Replay(S)' = Replay(S)
<1> DEFINE f == CHOOSE f : ReplayTo(MaxEvents, S, event, f)
           g == CHOOSE g : ReplayTo(MaxEvents, S, event', g)
<1>1. ReplayTo(MaxEvents, S, event, f) /\ ReplayTo(MaxEvents, S, event', g)
  BY ReplayExists, EventLogAssumption, Zenon
<1>2. Replay(S) = f[MaxEvents] /\ Replay(S)' = g[MaxEvents]
  BY ReplayIsStates DEF Replay, ReplayTo
<1> HIDE DEF f, g
<1> DEFINE D == event
           E == event'
<1>3. /\ ReplayTo(MaxEvents, S, D, f) /\ ReplayTo(MaxEvents, S, E, g)
      /\ \A n \in S : D[n] = E[n]
      /\ \A n \in 1 .. MaxEvents : n \in S <=> n \in S
      /\ MaxEvents \in 0 .. MaxEvents
  BY <1>1, EventLogAssumption
<1> HIDE DEF D, E
<1>4. f[MaxEvents] = g[MaxEvents]
  BY <1>3, SameReplay
<1> QED BY <1>2, <1>4

\* One more event, behind all of S.
LEMMA ReplayOneMore ==
  ASSUME NEW S \in SUBSET Positions, NEW p \in Positions, \A n \in S : n < p
  PROVE  Replay(S \cup {p}) = ApplyEvent(Replay(S), event[p])
<1> DEFINE T == S \cup {p}
<1>0. p \in 1 .. MaxEvents /\ p - 1 \in 0 .. MaxEvents /\ p \in 0 .. MaxEvents
      /\ MaxEvents \in 0 .. MaxEvents /\ p \in Nat /\ S \subseteq Nat /\ MaxEvents \in Nat
      /\ MaxEvents \in p .. MaxEvents /\ MaxEvents \in p - 1 .. MaxEvents
  BY EventLogAssumption DEF Positions
<1>1. \A n \in S : n <= p - 1
  BY <1>0
<1>2. Replay(S) = States(S)[p - 1]
  BY <1>0, <1>1, ReplayRests, ReplayIsStates
<1>3. Replay(T) = States(T)[p]
  <2>1. T \subseteq Positions /\ \A n \in T : n <= p
    BY <1>0, <1>1
  <2> HIDE DEF T
  <2> QED BY <1>0, <2>1, ReplayRests, ReplayIsStates
<1>4. States(T)[p] = ApplyEvent(States(T)[p - 1], event[p])
  <2>1. p \in T
    OBVIOUS
  <2> HIDE DEF T
  <2> QED BY <1>0, <2>1, StatesStep
<1>5. States(T)[p - 1] = States(S)[p - 1]
  <2>1. \A n \in 1 .. p - 1 : n \in T <=> n \in S
    BY <1>0
  <2>2. ReplayTo(MaxEvents, S, event, States(S)) /\ ReplayTo(MaxEvents, T, event, States(T))
    <3> HIDE DEF T
    <3> QED BY ReplayExists, EventLogAssumption, Zenon DEF States
  <2> HIDE DEF T
  <2> QED BY <1>0, <2>1, <2>2, SameReplay
<1> QED BY <1>2, <1>3, <1>4, <1>5

\* A replay ends in DELIVERED by a proof of delivery, and never in CANCELLED.
LEMMA ReplaySound ==
  ASSUME NEW S
  PROVE  /\ Replay(S).status # "CANCELLED"
         /\ Replay(S).status = "DELIVERED" => \E p \in S : event[p].type = "pod.confirmed"
<1> DEFINE Sound(r) == /\ r.status # "CANCELLED"
                       /\ r.status = "DELIVERED" => \E p \in S : event[p].type = "pod.confirmed"
           Bad == {n \in Nat : n <= MaxEvents /\ ~Sound(States(S)[n])}
<1>0. MaxEvents \in Nat
  BY EventLogAssumption
<1>1. SUFFICES ASSUME Bad # {} PROVE FALSE
  BY <1>0, ReplayIsStates
<1>2. PICK n \in Bad : \A k \in Bad : n <= k
  <2> HIDE DEF Bad
  <2>1. Bad \in SUBSET Nat
    BY DEF Bad
  <2> QED BY <1>1, <2>1, LeastNumber
<1>3. n \in Nat /\ n <= MaxEvents /\ ~Sound(States(S)[n])
  OBVIOUS
<1>4. n # 0
  <2>1. States(S)[0].status = "BOOKED"
    BY StatesStep DEF Fresh
  <2> QED BY <1>3, <2>1
<1>5. n \in 1 .. MaxEvents /\ n - 1 \in Nat /\ n - 1 < n /\ n - 1 <= MaxEvents
  BY <1>0, <1>3, <1>4
<1>6. Sound(States(S)[n - 1])
  <2> HIDE DEF Sound
  <2>1. n - 1 \notin Bad
    <3> HIDE DEF Bad
    <3> QED BY <1>2, <1>3, <1>5
  <2> QED BY <1>5, <2>1
<1> HIDE DEF Bad
<1>7. Sound(States(S)[n])
  <2> DEFINE r == States(S)[n - 1]
             q == States(S)[n]
  <2>1. q = IF n \in S THEN ApplyEvent(r, event[n]) ELSE r
    BY <1>5, StatesStep
  <2>2. Sound(r)
    BY <1>6
  <2> HIDE DEF r, q
  <2>3. CASE n \in S
    <3>1. q.status = IF StatusAfter(event[n]) # None /\ r.status \notin {"DELIVERED", "CANCELLED"}
                       THEN StatusAfter(event[n]) ELSE r.status
      BY <2>1, <2>3 DEF ApplyEvent
    <3>2. /\ StatusAfter(event[n]) = "DELIVERED" => event[n].type = "pod.confirmed"
          /\ StatusAfter(event[n]) # "CANCELLED"
      BY DEF StatusAfter, None
    <3>3. Sound(q)
      BY <2>2, <2>3, <3>1, <3>2
    <3> QED BY <3>3 DEF q
  <2>4. CASE n \notin S
    BY <2>1, <2>2, <2>4 DEF q
  <2> QED BY <2>3, <2>4
<1> QED BY <1>3, <1>7

-----------------------------------------------------------------------------
(* The tables converge, up to what crossed drains left in doubt.  Behind   *)
(* the watermark (Done) the parts that are sure are what the replay makes  *)
(* of the events, except for a status or a code that an event ahead of the *)
(* watermark is still to settle: one that was handled, in part or whole,   *)
(* before a fault, and that will be again.                                 *)

Done == {p \in handled[Lifecycle] : p <= offset[Lifecycle]}

Unseen == {p \in committed : p > offset[Lifecycle]}

AtWork(d) == cur[d] = Lifecycle /\ pc[d] \in {"handle", "advance"}

\* What is still to be taken up where d stands: an event that committed behind the
\* batch in its hands is none of it.
Ahead(d) == {p \in Unseen : AtWork(d) => p \in batch[d] \/ \A b \in batch[d] : b < p}

Touches(e, k) == k \in Clears(e) \/ k = Raises(e)

\* Status s and open rows o are the replay's R of S, or events of A still settle them,
\* or they are of the parts U in doubt.
RightAt(S, A, R, s, o, E, U) ==
  /\ \/ "status" \in U
     \/ s = R.status
     \/ /\ R.status = "DELIVERED"
        /\ \E p, q \in S : p < q /\ E[p].type = "pod.confirmed" /\ StatusAfter(E[q]) = s
     \/ \E q \in A : StatusAfter(E[q]) # None
  /\ \A k \in Codes \ U : \/ o[k] = IF k \in R.open THEN 1 ELSE 0
                          \/ \E q \in A : Touches(E[q], k)

\* The tables have been through e.
Applied(e, s, o, U) ==
  /\ "status" \in U \/ StatusAfter(e) \in {None, s}
  /\ \A k \in Codes \ U : /\ k = Raises(e) => o[k] = 1
                          /\ k \in Clears(e) /\ k # Raises(e) => o[k] = 0

TablesRight(A) ==
  /\ RightAt(Done, A, Replay(Done), status, opened, event, unsure)
  /\ \A k \in Codes \ unsure : opened[k] \in {0, 1}

\* How far the projector of d is in the event it is at.
Progress(d) ==
  cur[d] = Lifecycle =>
    \A p \in batch[d] : IsNext(d, p) =>
      /\ step[d] # "begin" => /\ "status" \in unsure \/ StatusAfter(event[p]) \in {None, status}
                              /\ todo[d] \subseteq Clears(event[p])
                              /\ \A k \in (Clears(event[p]) \ todo[d]) \ unsure : opened[k] = 0
      /\ step[d] = "raise" => /\ todo[d] = {} /\ Raises(event[p]) # None
                              /\ Raises(event[p]) \notin unsure =>
                                   saw[d] = (opened[Raises(event[p])] > 0)
      /\ pc[d] = "advance" => Applied(event[p], status, opened, unsure)

PositionSound(d) ==
  /\ pc[d] = "select" /\ cur[d] = Lifecycle => after[d] = offset[Lifecycle]
  /\ AtWork(d) => batch[d] # {} /\ \A b \in batch[d] : b > offset[Lifecycle]
  /\ handled[Lifecycle] \subseteq Done \cup Ahead(d)

\* A drain that nobody has joined goes on from the watermark, and its tables are right.
Alone(d) == TablesRight(Ahead(d)) /\ PositionSound(d) /\ Progress(d)

CrossSound ==
  /\ \A d \in crossed : d \in Dispatchers /\ Draining(d)
  /\ \A d, e \in Dispatchers : d # e /\ Draining(d) /\ Draining(e) => d \in crossed

CrossInv ==
  /\ SpineInv
  /\ CrossSound
  /\ TablesRight(Unseen)
  /\ \A d \in Dispatchers \ crossed : Alone(d)

\* The tables take an event that is behind all of S.
LEMMA RightOneMore ==
  ASSUME NEW S, NEW A, NEW B, NEW R, NEW s, NEW o, NEW E, NEW U, NEW p,
         RightAt(S, A, R, s, o, E, U), R.status # "CANCELLED",
         R.status = "DELIVERED" => \E i \in S : E[i].type = "pod.confirmed",
         Applied(E[p], s, o, U), \A n \in S : n < p, A \ {p} \subseteq B
  PROVE  RightAt(S \cup {p}, B, ApplyEvent(R, E[p]), s, o, E, U)
<1> DEFINE e == E[p]
           Q == ApplyEvent(R, e)
<1>1. /\ Q.status = IF StatusAfter(e) # None /\ R.status \notin {"DELIVERED", "CANCELLED"}
                     THEN StatusAfter(e) ELSE R.status
      /\ Q.open = (R.open \ Clears(e)) \cup ({Raises(e)} \ {None})
  BY DEF ApplyEvent, Open
<1>3. None \notin Codes
  BY DEF None, Codes
<1>5. \/ "status" \in U
      \/ s = Q.status
      \/ /\ Q.status = "DELIVERED"
         /\ \E i, j \in S \cup {p} : i < j /\ E[i].type = "pod.confirmed" /\ StatusAfter(E[j]) = s
      \/ \E q \in B : StatusAfter(E[q]) # None
  <2> HIDE DEF Q
  <2> SUFFICES ASSUME "status" \notin U
               PROVE  \/ s = Q.status
                      \/ /\ Q.status = "DELIVERED"
                         /\ \E i, j \in S \cup {p} : /\ i < j /\ E[i].type = "pod.confirmed"
                                                     /\ StatusAfter(E[j]) = s
                      \/ \E q \in B : StatusAfter(E[q]) # None
    OBVIOUS
  <2>1. CASE StatusAfter(e) # None
    <3>1. StatusAfter(e) = s
      BY <2>1 DEF Applied
    <3>2. CASE R.status = "DELIVERED"
      <4>1. PICK i \in S : E[i].type = "pod.confirmed"
        BY <3>2
      <4> QED BY <1>1, <3>1, <3>2, <4>1
    <3>3. CASE R.status # "DELIVERED"
      BY <1>1, <2>1, <3>1, <3>3
    <3> QED BY <3>2, <3>3
  <2>2. CASE StatusAfter(e) = None
    BY <1>1, <2>2 DEF RightAt
  <2> QED BY <2>1, <2>2
<1>6. ASSUME NEW k \in Codes \ U
      PROVE  o[k] = (IF k \in Q.open THEN 1 ELSE 0) \/ \E q \in B : Touches(E[q], k)
  <2> HIDE DEF Q
  <2>1. CASE k = Raises(e)
    BY <1>1, <1>3, <2>1 DEF Applied
  <2>2. CASE k \in Clears(e) /\ k # Raises(e)
    BY <1>1, <2>2 DEF Applied
  <2>3. CASE ~Touches(e, k)
    <3>1. k \in Q.open <=> k \in R.open
      BY <1>1, <2>3 DEF Touches
    <3>2. CASE o[k] = IF k \in R.open THEN 1 ELSE 0
      BY <3>1, <3>2
    <3>3. CASE \E q \in A : Touches(E[q], k)
      BY <2>3, <3>3
    <3> QED BY <3>2, <3>3 DEF RightAt
  <2> QED BY <2>1, <2>2, <2>3 DEF Touches
<1> HIDE DEF Q
<1>7. RightAt(S \cup {p}, B, Q, s, o, E, U)
  BY <1>5, <1>6 DEF RightAt
<1> QED BY <1>7 DEF Q

\* More events may be ahead, and others may be recorded.
LEMMA RightStays ==
  ASSUME NEW S, NEW A, NEW B, NEW R, NEW s, NEW o, NEW D, NEW E, NEW U,
         RightAt(S, A, R, s, o, D, U), A \subseteq B, \A n \in S \cup A : E[n] = D[n]
  PROVE  RightAt(S, B, R, s, o, E, U)
BY DEF RightAt

\* The projector writes what the event at hand is to settle, and is sure of it.
LEMMA RightWhileWriting ==
  ASSUME NEW S, NEW A, NEW R, NEW s, NEW o, NEW t, NEW u, NEW E, NEW U, NEW V, NEW p \in A,
         RightAt(S, A, R, s, o, E, U),
         (t = s /\ ("status" \in U => "status" \in V)) \/ StatusAfter(E[p]) # None,
         \A k \in Codes : (u[k] = o[k] /\ (k \in U => k \in V)) \/ Touches(E[p], k)
  PROVE  RightAt(S, A, R, t, u, E, V)
BY DEF RightAt

\* The numbers an instance stands among.
LEMMA Numbers ==
  ASSUME SpineInv
  PROVE  /\ offset[Lifecycle] \in Nat /\ Positions \subseteq Nat /\ committed \subseteq Positions
         /\ handled[Lifecycle] \subseteq committed /\ Done \subseteq committed
         /\ \A d \in Dispatchers : batch[d] \subseteq committed
         /\ \A q \in Unseen : ~(q <= offset[Lifecycle])
<1>1. /\ offset[Lifecycle] \in Nat /\ Positions \subseteq Nat /\ committed \subseteq Positions
      /\ handled[Lifecycle] \subseteq committed
      /\ \A d \in Dispatchers : batch[d] \subseteq committed
  BY EventLogAssumption DEF SpineInv, DispatchInv, HandledSound, BatchSound, TypeOK, LogTypeOK,
     Handlers, Lifecycle, Positions
<1>2. ASSUME NEW q \in Unseen PROVE ~(q <= offset[Lifecycle])
  <2>1. q \in Nat /\ q > offset[Lifecycle]
    BY <1>1 DEF Unseen
  <2> QED BY <1>1, <2>1
<1> QED BY <1>1, <1>2 DEF Done

\* A step that leaves the tables and the projector's place in the log alone.
LEMMA TablesStay ==
  ASSUME SpineInv, status' = status, opened' = opened, unsure' = unsure,
         offset'[Lifecycle] = offset[Lifecycle], handled'[Lifecycle] = handled[Lifecycle],
         committed \subseteq committed', \A p \in committed : event'[p] = event[p]
  PROVE  /\ Done' = Done
         /\ TablesRight(Unseen) => TablesRight(Unseen)'
         /\ \A d \in Dispatchers : TablesRight(Ahead(d)) /\ Ahead(d) \subseteq Ahead(d)' =>
                                     TablesRight(Ahead(d))'
<1>1. Done' = Done /\ Done \subseteq committed /\ Unseen \subseteq committed
  BY Numbers DEF Done, Unseen
<1>2. Replay(Done)' = Replay(Done)
  BY <1>1, ReplayUnchanged
<1> DEFINE R == Replay(Done)
           S == Done
<1>3. ASSUME TablesRight(Unseen) PROVE TablesRight(Unseen)'
  <2> DEFINE A == Unseen
             B == Unseen'
  <2>1. RightAt(S, A, R, status, opened, event, unsure)
    BY <1>3 DEF TablesRight
  <2>2. A \subseteq B /\ \A n \in S \cup A : event'[n] = event[n]
    BY <1>1 DEF Unseen
  <2> HIDE DEF A, B, R, S
  <2>3. RightAt(S, B, R, status, opened, event', unsure)
    BY <2>1, <2>2, RightStays
  <2>4. RightAt(Done, Unseen', Replay(Done), status, opened, event', unsure)
    BY <2>3 DEF S, B, R
  <2>5. RightAt(Done, Unseen, Replay(Done), status, opened, event, unsure)'
    BY <1>1, <1>2, <2>4 DEF RightAt
  <2> QED BY <1>3, <2>5 DEF TablesRight
<1>4. ASSUME NEW d \in Dispatchers, TablesRight(Ahead(d)), Ahead(d) \subseteq Ahead(d)'
      PROVE  TablesRight(Ahead(d))'
  <2> DEFINE A == Ahead(d)
             B == Ahead(d)'
  <2>1. RightAt(S, A, R, status, opened, event, unsure)
    BY <1>4 DEF TablesRight
  <2>2. A \subseteq B /\ \A n \in S \cup A : event'[n] = event[n]
    BY <1>1, <1>4 DEF Ahead
  <2> HIDE DEF A, B, R, S
  <2>3. RightAt(S, B, R, status, opened, event', unsure)
    BY <2>1, <2>2, RightStays
  <2>4. RightAt(Done, Ahead(d)', Replay(Done), status, opened, event', unsure)
    BY <2>3 DEF S, B, R
  <2>5. RightAt(Done, Ahead(d), Replay(Done), status, opened, event, unsure)'
    BY <1>1, <1>2, <2>4 DEF RightAt
  <2> QED BY <1>4, <2>5 DEF TablesRight
<1> QED BY <1>1, <1>3, <1>4

\* An instance outside the projector has nothing of it in its hands.
LEMMA NotDraining ==
  SpineInv /\ TablesRight(Unseen) => \A d \in Dispatchers : ~Draining(d) => Alone(d)
<1> SUFFICES ASSUME SpineInv, TablesRight(Unseen), NEW d \in Dispatchers, ~Draining(d)
             PROVE  Alone(d)
  OBVIOUS
<1>1. ~AtWork(d) /\ Ahead(d) = Unseen
  BY DEF Ahead, AtWork, Draining
<1>2. handled[Lifecycle] \subseteq Done \cup Unseen
  <2> SUFFICES ASSUME NEW p \in handled[Lifecycle], p \notin Done PROVE p \in Unseen
    OBVIOUS
  <2>1. p \in Nat /\ offset[Lifecycle] \in Nat /\ p \in committed /\ ~(p <= offset[Lifecycle])
    BY Numbers DEF Done
  <2> QED BY <2>1 DEF Unseen
<1>3. cur[d] = Lifecycle => batch[d] = {}
  BY DEF Draining, SpineInv, DispatchInv, BatchSound
<1> QED BY <1>1, <1>2, <1>3 DEF Alone, PositionSound, Progress, Draining

\* What is right where an instance stands is right of all that is still unseen.
LEMMA RightUnseen ==
  ASSUME NEW d \in Dispatchers, TablesRight(Ahead(d))
  PROVE  TablesRight(Unseen)
<1> DEFINE A == Ahead(d)
           B == Unseen
           R == Replay(Done)
           S == Done
<1>1. RightAt(S, A, R, status, opened, event, unsure) /\ A \subseteq B
  BY DEF TablesRight, Ahead
<1> HIDE DEF A, B, R, S
<1>2. RightAt(S, B, R, status, opened, event, unsure)
  BY <1>1, RightStays
<1> QED BY <1>2 DEF S, B, R, TablesRight

\* The projector writes a status or a row of the event at hand.
LEMMA TablesWhileWriting ==
  ASSUME SpineInv, NEW d \in Dispatchers, TablesRight(Ahead(d)), PositionSound(d), NEW p \in batch[d],
         AtWork(d), handled'[Lifecycle] \in {handled[Lifecycle], handled[Lifecycle] \cup {p}},
         UNCHANGED <<offset, committed, event, batch>>, AtWork(d)',
         (status' = status /\ ("status" \in unsure => "status" \in unsure')) \/ StatusAfter(event[p]) # None,
         \A k \in Codes : k \notin unsure' => opened'[k] \in {0, 1},
         \A k \in Codes : \/ opened'[k] = opened[k] /\ (k \in unsure => k \in unsure')
                          \/ Touches(event[p], k)
  PROVE  TablesRight(Ahead(d))' /\ handled'[Lifecycle] \subseteq Done' \cup Ahead(d)'
<1>1. /\ Ahead(d)' = Ahead(d) /\ Unseen' = Unseen
      /\ p \in Ahead(d) /\ p \in Unseen
  BY Numbers DEF Ahead, Unseen, PositionSound, AtWork
<1>2. ~(p <= offset[Lifecycle])
  BY <1>1, Numbers
<1>3. Done' = Done
  BY <1>2 DEF Done
<1>4. Replay(Done)' = Replay(Done)
  BY <1>3, ReplayUnchanged
<1>5. RightAt(Done, Ahead(d), Replay(Done), status', opened', event, unsure')
  <2> DEFINE A == Ahead(d)
             R == Replay(Done)
             S == Done
  <2>1. RightAt(S, A, R, status, opened, event, unsure) /\ p \in A
    BY <1>1 DEF TablesRight
  <2> HIDE DEF A, R, S
  <2>2. RightAt(S, A, R, status', opened', event, unsure')
    BY <2>1, RightWhileWriting
  <2> QED BY <2>2 DEF A, R, S
<1>6. RightAt(Done, Ahead(d), Replay(Done), status, opened, event, unsure)'
  BY <1>1, <1>3, <1>4, <1>5 DEF RightAt
<1>8. handled'[Lifecycle] \subseteq Done' \cup Ahead(d)'
  BY <1>1, <1>3 DEF PositionSound
<1> QED BY <1>6, <1>8 DEF TablesRight

\* The watermark moves over the event the projector has been through.
LEMMA TablesAdvance ==
  ASSUME SpineInv, NEW d \in Dispatchers, Alone(d), unsure' = unsure,
         Advance(d), cur[d] = Lifecycle, UNCHANGED <<event, dataVars, localVars>>
  PROVE  Alone(d)'
<1>0. TypeOK /\ BatchSound(d) /\ HandledSound /\ SpineTypeOK /\ WorkSound(d)
      /\ TablesRight(Ahead(d)) /\ PositionSound(d) /\ Progress(d)
  BY DEF SpineInv, DispatchInv, Alone
<1>1. PICK p \in batch[d] :
         /\ IsNext(d, p)
         /\ offset' = [offset EXCEPT ![cur[d]] = p]
         /\ batch' = [batch EXCEPT ![d] = @ \ {p}]
         /\ pc' = [pc EXCEPT ![d] = IF batch[d] = {p} THEN "read" ELSE "handle"]
  BY DEF Advance
<1>2. /\ offset'[Lifecycle] = p /\ batch'[d] = batch[d] \ {p}
      /\ pc'[d] = IF batch[d] = {p} THEN "read" ELSE "handle"
      /\ handled' = handled /\ committed' = committed /\ cur' = cur /\ after' = after
      /\ pc[d] = "advance" /\ step' = step /\ step[d] = "begin"
  BY <1>0, <1>1 DEF Advance, logVars, localVars, TypeOK, Handlers, Lifecycle, WorkSound
<1>3. /\ p \in handled[Lifecycle] /\ p > offset[Lifecycle] /\ p \in Positions
      /\ handled[Lifecycle] \subseteq committed /\ committed \subseteq Positions
      /\ batch[d] \subseteq Positions /\ offset[Lifecycle] \in Nat /\ Positions \subseteq Nat
  <2>1. p \in handled[Lifecycle] /\ p > offset[Lifecycle]
    BY <1>0, <1>1, <1>2 DEF BatchSound, PositionSound, AtWork
  <2> QED BY <2>1, Numbers
<1>4. \A q \in Ahead(d) : q = p \/ q > p
  <2> SUFFICES ASSUME NEW q \in Ahead(d) PROVE q = p \/ q > p
    OBVIOUS
  <2>1. q \in Nat /\ p \in Nat
    BY <1>3 DEF Ahead, Unseen
  <2>2. q \in batch[d] \/ p < q
    BY <1>1, <1>2 DEF Ahead, AtWork
  <2> QED BY <1>1, <2>1, <2>2 DEF IsNext
<1>5. Done' = Done \cup {p}
  <2>1. ASSUME NEW q \in handled[Lifecycle], q <= p, q # p PROVE q <= offset[Lifecycle]
    <3>1. q \in Nat /\ p \in Nat
      BY <1>3
    <3>2. q \notin Ahead(d)
      BY <1>4, <2>1, <3>1
    <3> QED BY <1>0, <3>2 DEF PositionSound, Done
  <2>2. ASSUME NEW q \in handled[Lifecycle], q <= offset[Lifecycle] PROVE q <= p
    <3>1. q \in Nat /\ p \in Nat /\ offset[Lifecycle] \in Nat /\ offset[Lifecycle] < p
      BY <1>3
    <3> QED BY <2>2, <3>1
  <2>3. p <= p
    BY <1>3
  <2> QED BY <1>2, <1>3, <2>1, <2>2, <2>3 DEF Done
<1>6. Ahead(d) \ {p} \subseteq Ahead(d)'
  <2> SUFFICES ASSUME NEW q \in Ahead(d), q # p PROVE q \in Ahead(d)'
    OBVIOUS
  <2>1. q > p /\ q \in committed
    BY <1>4 DEF Ahead, Unseen
  <2>2. q \in batch[d] \/ \A b \in batch[d] : b < q
    BY <1>2 DEF Ahead, AtWork
  <2> QED BY <1>2, <2>1, <2>2 DEF Ahead, Unseen
<1>7. Done \subseteq Positions /\ \A n \in Done : n < p
  <2>1. ASSUME NEW n \in Done PROVE n < p
    <3>1. n \in Nat /\ p \in Nat /\ offset[Lifecycle] \in Nat /\ offset[Lifecycle] < p /\ n <= offset[Lifecycle]
      BY <1>3 DEF Done
    <3> QED BY <3>1
  <2>2. Done \subseteq Positions
    BY <1>3 DEF Done
  <2> QED BY <2>1, <2>2
<1>8. Replay(Done)' = ApplyEvent(Replay(Done), event[p])
  <2>1. Replay(Done)' = Replay(Done \cup {p})
    BY <1>5 DEF Replay
  <2> QED BY <1>3, <1>7, <2>1, ReplayOneMore
<1>9. Applied(event[p], status, opened, unsure)
  BY <1>0, <1>1, <1>2 DEF Progress
<1>10. RightAt(Done \cup {p}, Ahead(d)', ApplyEvent(Replay(Done), event[p]), status, opened, event, unsure)
  <2> DEFINE A == Ahead(d)
             B == Ahead(d)'
             R == Replay(Done)
             S == Done
  <2>1. /\ RightAt(S, A, R, status, opened, event, unsure) /\ R.status # "CANCELLED"
        /\ R.status = "DELIVERED" => \E i \in S : event[i].type = "pod.confirmed"
    BY <1>0, ReplaySound DEF TablesRight
  <2>2. A \ {p} \subseteq B /\ \A n \in S : n < p
    BY <1>6, <1>7
  <2> HIDE DEF A, B, R, S
  <2>3. RightAt(S \cup {p}, B, ApplyEvent(R, event[p]), status, opened, event, unsure)
    BY <1>9, <2>1, <2>2, RightOneMore
  <2> QED BY <2>3 DEF A, B, R, S
<1>11. status' = status /\ opened' = opened /\ event' = event
  BY DEF dataVars
<1>12. RightAt(Done, Ahead(d), Replay(Done), status, opened, event, unsure)'
  BY <1>5, <1>8, <1>10, <1>11 DEF RightAt
<1>14. TablesRight(Ahead(d))'
  BY <1>0, <1>11, <1>12 DEF TablesRight
<1>15. PositionSound(d)'
  <2>1. handled'[Lifecycle] \subseteq Done' \cup Ahead(d)'
    BY <1>0, <1>2, <1>3, <1>5, <1>6 DEF PositionSound
  <2>2. \A b \in batch'[d] : b > p
    <3> SUFFICES ASSUME NEW b \in batch[d], b # p PROVE b > p
      BY <1>2
    <3>1. p <= b /\ b \in Nat /\ p \in Nat
      BY <1>1, <1>3 DEF IsNext
    <3> QED BY <3>1
  <2>3. AtWork(d)' => batch'[d] # {}
    BY <1>1, <1>2 DEF AtWork
  <2> QED BY <1>2, <2>1, <2>2, <2>3 DEF PositionSound
<1>16. Progress(d)'
  BY <1>2 DEF Progress
<1> QED BY <1>14, <1>15, <1>16 DEF Alone

-----------------------------------------------------------------------------
(* The steps.  One instance at most drains the projector uncrossed, and    *)
(* while it does nobody else touches what the projector keeps.             *)

\* A step leaves committed events as they are, the watermark another instance has read,
\* and what that instance has settled.
LEMMA OthersKeep ==
  ASSUME SpineInv, NEW w, Elsewhere(w), [SpineNext]_spineVars,
         w \in Dispatchers => SpineTick(w) \/ TickFault(w) \/ OrphanCommits(w)
  PROVE  /\ committed \subseteq committed'
         /\ \A p \in committed : event'[p] = event[p]
         /\ \A e \in Dispatchers \ {w} : Draining(e)' = Draining(e) /\ Rewritten(e) = {}
<1>1. committed \subseteq 1 .. clock
  BY DEF SpineInv, DispatchInv, TypeOK, LogTypeOK
<1>2. \A p \in committed : event'[p] = event[p]
  BY <1>1, LogStays
<1>3. committed \subseteq committed'
  <2>1. [Next]_vars
    BY SpineStepMaps DEF spineVars
  <2> QED BY <2>1 DEF Next, WriterStep, TickStep, WriterStamp, WriterCommit, WriterRollback, Stamp, Commit,
             Rollback, StartTick, ReadOffset, SelectBatch, DrainDone, Handle, Advance, HandlerPoisoned,
             Fault, Abandon, logVars, vars
<1>4. \A e \in Dispatchers \ {w} : Draining(e)' = Draining(e) /\ Rewritten(e) = {}
  <2>1. ASSUME NEW e \in Dispatchers \ {w}
        PROVE  Draining(e)' = Draining(e) /\ step'[e] = step[e] /\ todo'[e] = todo[e]
    BY DEF Elsewhere, Draining
  <2>2. ASSUME NEW e \in Dispatchers \ {w} PROVE Rewritten(e) = {}
    BY <2>1 DEF Rewritten
  <2> QED BY <2>1, <2>2
<1> QED BY <1>2, <1>3, <1>4

\* A step of an instance that is not draining, or of a service, leaves what the projector
\* keeps alone; the instance can only have taken up the watermark.
LEMMA OutsideProjector ==
  ASSUME SpineInv, NEW d \in Dispatchers, ~Draining(d), SpineTick(d) \/ TickFault(d) \/ OrphanCommits(d)
  PROVE  /\ status' = status /\ opened' = opened
         /\ offset'[Lifecycle] = offset[Lifecycle] /\ handled'[Lifecycle] = handled[Lifecycle]
         /\ Rewritten(d) = {}
         /\ \A e \in Dispatchers \ {d} : after'[e] = after[e]
         /\ Draining(d)' => /\ pc'[d] = "select" /\ after'[d] = offset[Lifecycle] /\ batch'[d] = {}
<1>0. /\ TypeOK /\ SpineTypeOK /\ WorkSound(d) /\ BatchSound(d)
      /\ Lifecycle \in Handlers /\ Lifecycle # Billing /\ Lifecycle # Ledger
  BY DEF SpineInv, DispatchInv, Ledger, Lifecycle, Billing, Handlers
<1>a. Rewritten(d) = {}
  <2>1. step[d] = "work" => cur[d] # Lifecycle
    BY <1>0 DEF WorkSound, Draining
  <2>2. \A p : ~At(d, Lifecycle, p)
    BY DEF At, Draining
  <2> QED BY <2>1, <2>2 DEF Rewritten
<1> DEFINE Goal ==
      /\ status' = status /\ opened' = opened
      /\ offset'[Lifecycle] = offset[Lifecycle] /\ handled'[Lifecycle] = handled[Lifecycle]
      /\ \A e \in Dispatchers \ {d} : after'[e] = after[e]
      /\ Draining(d)' => /\ pc'[d] = "select" /\ after'[d] = offset[Lifecycle] /\ batch'[d] = {}
<1> SUFFICES Goal
  BY <1>a
<1>1. CASE Around(d)
  <2>0. status' = status /\ opened' = opened
    BY <1>1 DEF Around, dataVars
  <2>1. CASE StartTick(d)
    BY <1>0, <2>0, <2>1 DEF StartTick, Draining, TypeOK
  <2>2. CASE ReadOffset(d)
    BY <1>0, <2>0, <2>2 DEF ReadOffset, Draining, TypeOK, BatchSound
  <2>3. CASE SelectBatch(d)
    BY <1>0, <2>0, <2>3 DEF SelectBatch, Draining, TypeOK
  <2>4. CASE DrainDone(d)
    BY <1>0, <2>0, <2>4 DEF DrainDone, Draining, TypeOK
  <2>5. CASE Advance(d)
    BY <1>0, <2>0, <2>5 DEF Advance, Draining, TypeOK
  <2> QED BY <1>1, <2>1, <2>2, <2>3, <2>4, <2>5 DEF Around
<1>2. CASE TickFault(d)
  BY <1>0, <1>2 DEF TickFault, Fault, Abandon, Draining, dataVars, TypeOK
<1>3. CASE OrphanCommits(d) \/ OrphanRollsBack(d) \/ CommitCharge(d)
  BY <1>3 DEF OrphanCommits, OrphanRollsBack, CommitCharge, CommitRows, WriterCommit, WriterRollback,
              dispatchVars, dataVars, Draining
<1>4. CASE InsertCharge(d)
  BY <1>4 DEF InsertCharge, WriterStamp, dispatchVars, dataVars, Draining
<1>5. CASE StartAccrual(d) \/ StartLedger(d) \/ InsertLedger(d)
  BY <1>5 DEF StartAccrual, StartLedger, InsertLedger, Begin, vars, dataVars, Draining
<1>6. CASE Return(d)
  <2>1. cur[d] # Lifecycle /\ Handle(d) /\ status' = status /\ opened' = opened
    BY <1>6 DEF Return, Draining, dataVars
  <2> QED BY <1>0, <2>1 DEF Handle, Draining, TypeOK
<1>7. CASE SetStatus(d) \/ Clear(d) \/ LookForOpen(d) \/ Raise(d)
  BY <1>7 DEF SetStatus, Clear, LookForOpen, Raise, At, Draining
<1> QED BY <1>1, <1>2, <1>3, <1>4, <1>5, <1>6, <1>7 DEF SpineTick, HandlerStep

\* A step of an instance that drains alone leaves its tables right.
LEMMA AloneSteps ==
  ASSUME SpineInv, NEW d \in Dispatchers, Draining(d), Alone(d), unsure' = unsure \ Rewritten(d),
         SpineTick(d) \/ TickFault(d) \/ OrphanCommits(d), SpineInv'
  PROVE  IF Draining(d)' THEN Alone(d)' ELSE TablesRight(Unseen)'
<1> DEFINE Goal == IF Draining(d)' THEN Alone(d)' ELSE TablesRight(Unseen)'
<1>0. /\ TypeOK /\ SpineTypeOK /\ WorkSound(d) /\ BatchSound(d) /\ d \in Writers
      /\ TablesRight(Ahead(d)) /\ PositionSound(d) /\ Progress(d) /\ cur[d] = Lifecycle
      /\ TablesRight(Unseen)
  BY RightUnseen DEF SpineInv, DispatchInv, Alone, Draining
<1>b. Lifecycle \in Handlers /\ Lifecycle # Billing /\ Lifecycle # Ledger
  BY DEF Ledger, Lifecycle, Billing, Handlers
<1>1. CASE TickFault(d)
  <2>1. UNCHANGED <<status, opened, offset, handled, committed, event>>
    BY <1>1 DEF TickFault, Fault, Abandon, logVars, dataVars
  <2>2. pc'[d] = "idle" /\ step'[d] = "begin"
    BY <1>0, <1>1 DEF TickFault, Fault, Abandon, TypeOK, SpineTypeOK
  <2>3. Rewritten(d) = {} /\ ~Draining(d)'
    BY <2>2 DEF Rewritten, Draining
  <2> QED BY <1>0, <2>1, <2>3, TablesStay
<1>2. CASE Around(d)
  <2>0. UNCHANGED <<event, dataVars, localVars>>
    BY <1>2 DEF Around
  <2>a. Rewritten(d) = {}
    BY <2>0 DEF Rewritten, localVars
  <2>1. CASE DrainDone(d)
    <3>1. UNCHANGED <<status, opened, offset, handled, committed, event>>
      BY <2>0, <2>1 DEF DrainDone, logVars, dataVars
    <3>2. ~Draining(d)'
      BY <1>0, <2>1 DEF DrainDone, Draining, TypeOK
    <3> QED BY <1>0, <2>a, <3>1, <3>2, TablesStay
  <2>2. CASE SelectBatch(d)
    <3>1. PICK B \in SUBSET Pending(d) : IsBatch(B, Pending(d)) /\ batch' = [batch EXCEPT ![d] = B]
      BY <2>2 DEF SelectBatch
    <3>2. /\ UNCHANGED <<status, opened, offset, handled, committed, event, cur, step, todo, saw>>
          /\ batch'[d] = B /\ pc[d] = "select" /\ pc'[d] = "handle"
      BY <1>0, <2>0, <2>2, <3>1 DEF SelectBatch, logVars, dataVars, localVars, TypeOK
    <3>3. step[d] = "begin"
      BY <1>0, <3>2 DEF WorkSound
    <3>4. Progress(d)'
      BY <3>2, <3>3 DEF Progress
    <3>5. B # {}
      <4>1. Pending(d) # {} /\ BatchSize # 0
        BY <2>2, DispatcherAssumption DEF SelectBatch
      <4> QED BY <3>1, <4>1, FS_EmptySet DEF IsBatch
    <3>6. /\ \A b \in B : b > offset[Lifecycle]
          /\ \A q \in committed : q > offset[Lifecycle] => q \in B \/ \A b \in B : b < q
      BY <1>0, <3>1, <3>2 DEF Pending, IsBatch, PositionSound
    <3>7. Ahead(d) \subseteq Ahead(d)' /\ Done' = Done
      BY <3>2, <3>6 DEF Ahead, AtWork, Unseen, Done
    <3>8. TablesRight(Ahead(d))'
      BY <1>0, <2>a, <3>2, <3>7, TablesStay
    <3>9. PositionSound(d)'
      BY <1>0, <3>2, <3>5, <3>6, <3>7 DEF PositionSound
    <3>10. Draining(d)'
      BY <1>0, <3>2 DEF Draining
    <3> QED BY <3>4, <3>8, <3>9, <3>10 DEF Alone
  <2>3. CASE Advance(d)
    <3>1. Alone(d)'
      BY <1>0, <2>0, <2>3, <2>a, TablesAdvance
    <3>2. TablesRight(Unseen)'
      BY <3>1 DEF Alone, TablesRight, RightAt, Ahead
    <3> QED BY <3>1, <3>2
  <2> QED BY <1>0, <1>2, <2>1, <2>2, <2>3 DEF Around, StartTick, ReadOffset, Draining
<1>3. CASE SetStatus(d) \/ Clear(d) \/ LookForOpen(d) \/ Raise(d) \/ Return(d)
  <2>1. pc[d] = "handle" /\ AtWork(d)
    BY <1>0, <1>3 DEF SetStatus, Clear, LookForOpen, Raise, Return, Handle, At, AtWork
  <2>2. PICK p \in batch[d] : IsNext(d, p)
    <3>1. batch[d] \in SUBSET Nat /\ batch[d] # {}
      BY <1>0, <2>1, EventLogAssumption DEF PositionSound, TypeOK, Positions
    <3>2. PICK p \in batch[d] : \A q \in batch[d] : p <= q
      BY <3>1, LeastNumber
    <3> QED BY <3>2 DEF IsNext
  <2>3. \A q \in batch[d] : IsNext(d, q) => q = p
    BY <1>0, <2>2, NextIsOne
  <2>4. UNCHANGED <<offset, committed, event, batch, cur, after>> /\ pc'[d] \in {"handle", "advance"}
    BY <1>0, <1>3, <2>1 DEF SetStatus, Clear, LookForOpen, Raise, Return, Handle, Begin, vars, dataVars,
                            logVars, TypeOK
  <2>5. AtWork(d)' /\ Draining(d)' /\ \A q : IsNext(d, q)' <=> IsNext(d, q)
    BY <1>0, <2>1, <2>4 DEF AtWork, IsNext, Draining
  <2>6. /\ Raises(event[p]) \in Codes \cup {None} /\ Clears(event[p]) \subseteq Codes
        /\ StatusAfter(event[p]) \in Statuses \cup {None} /\ None \notin Codes /\ None \notin Statuses
        /\ "status" \notin Codes
    BY <1>0, <2>2, WorkType DEF TypeOK, SpineTypeOK, Recordable, None, Codes, Statuses
  <2>7. opened \in [Codes -> Nat] /\ \A k \in Codes \ unsure : opened[k] \in {0, 1}
    BY <1>0 DEF SpineTypeOK, TablesRight
\* What is left to show of each of the projector's statements.
  <2>8. ASSUME handled'[Lifecycle] \in {handled[Lifecycle], handled[Lifecycle] \cup {p}},
               (status' = status /\ "status" \notin Rewritten(d)) \/ StatusAfter(event[p]) # None,
               \A k \in Codes : k \notin unsure' => opened'[k] \in {0, 1},
               \A k \in Codes : (opened'[k] = opened[k] /\ k \notin Rewritten(d)) \/ Touches(event[p], k),
               step'[d] # "begin" =>
                 /\ "status" \in unsure' \/ StatusAfter(event[p]) \in {None, status'}
                 /\ todo'[d] \subseteq Clears(event[p])
                 /\ \A k \in (Clears(event[p]) \ todo'[d]) \ unsure' : opened'[k] = 0,
               step'[d] = "raise" =>
                 /\ todo'[d] = {} /\ Raises(event[p]) # None
                 /\ Raises(event[p]) \notin unsure' => saw'[d] = (opened'[Raises(event[p])] > 0),
               pc'[d] = "advance" => Applied(event[p], status', opened', unsure')
        PROVE  Goal
    <3>1. TablesRight(Ahead(d))' /\ handled'[Lifecycle] \subseteq Done' \cup Ahead(d)'
      <4>1. /\ (status' = status /\ ("status" \in unsure => "status" \in unsure')) \/ StatusAfter(event[p]) # None
            /\ \A k \in Codes : \/ opened'[k] = opened[k] /\ (k \in unsure => k \in unsure')
                                \/ Touches(event[p], k)
        BY <2>8
      <4> QED BY <1>0, <2>1, <2>2, <2>4, <2>5, <2>8, <4>1, TablesWhileWriting
    <3>2. PositionSound(d)'
      BY <1>0, <2>1, <2>4, <3>1 DEF PositionSound, AtWork
    <3>3. Progress(d)'
      BY <2>3, <2>4, <2>5, <2>8 DEF Progress, Applied
    <3> QED BY <2>5, <3>1, <3>2, <3>3 DEF Alone
  <2>9. CASE SetStatus(d)
    <3>1. /\ At(d, Lifecycle, p) /\ Begin(d, Clears(event[p]))
          /\ status' = IF StatusAfter(event[p]) = None THEN status ELSE StatusAfter(event[p])
          /\ UNCHANGED <<opened, charges, ledger>>
      BY <2>3, <2>9 DEF SetStatus, At
    <3>2. /\ step'[d] = "work" /\ todo'[d] = Clears(event[p]) /\ handled' = handled /\ pc'[d] = "handle"
          /\ step[d] = "begin"
      BY <1>0, <2>1, <3>1 DEF Begin, vars, SpineTypeOK
    <3>3. Rewritten(d) = {a \in {"status"} : StatusAfter(event[p]) # None}
      BY <2>2, <2>3, <3>1, <3>2 DEF Rewritten, At
    <3>4. \A k \in Codes : k \notin Rewritten(d)
      BY <2>6, <3>3
    <3>5. \A k \in Codes : k \notin unsure' => opened'[k] \in {0, 1}
      BY <2>7, <3>1, <3>4
    <3>6. StatusAfter(event[p]) \in {None, status'}
      BY <3>1
    <3>7. (status' = status /\ "status" \notin Rewritten(d)) \/ StatusAfter(event[p]) # None
      BY <3>1, <3>3
    <3> QED BY <2>8, <3>1, <3>2, <3>4, <3>5, <3>6, <3>7
  <2>10. CASE Clear(d)
    <3>1. PICK k \in todo[d] : /\ opened' = [opened EXCEPT ![k] = 0]
                               /\ todo' = [todo EXCEPT ![d] = @ \ {k}]
      BY <2>10 DEF Clear
    <3>2. /\ step[d] = "work" /\ step' = step /\ status' = status /\ handled' = handled
          /\ pc'[d] = "handle" /\ todo'[d] = todo[d] \ {k}
      BY <1>0, <2>1, <2>10, <3>1 DEF Clear, vars, SpineTypeOK
    <3>3. /\ "status" \in unsure \/ StatusAfter(event[p]) \in {None, status}
          /\ todo[d] \subseteq Clears(event[p])
          /\ \A c \in (Clears(event[p]) \ todo[d]) \ unsure : opened[c] = 0
      BY <1>0, <2>1, <2>2, <3>2 DEF Progress
    <3>a. Rewritten(d) = {k} /\ k \in Codes
      BY <1>0, <2>6, <3>1, <3>2, <3>3 DEF Rewritten
    <3>b. "status" \notin Rewritten(d)
      BY <2>6, <3>a
    <3>4. \A c \in Codes : opened'[c] = IF c = k THEN 0 ELSE opened[c]
      BY <2>7, <3>1
    <3>5. /\ \A c \in Codes : c \notin unsure' => opened'[c] \in {0, 1}
          /\ \A c \in Codes : (opened'[c] = opened[c] /\ c \notin Rewritten(d)) \/ Touches(event[p], c)
      BY <2>7, <3>1, <3>3, <3>4, <3>a DEF Touches
    <3>6. \A c \in (Clears(event[p]) \ todo'[d]) \ unsure' : opened'[c] = 0
      BY <2>6, <3>2, <3>3, <3>4, <3>a
    <3>7. "status" \in unsure' \/ StatusAfter(event[p]) \in {None, status'}
      BY <3>2, <3>3, <3>b
    <3> QED BY <2>8, <3>2, <3>3, <3>5, <3>6, <3>7, <3>b
  <2>11. CASE LookForOpen(d)
    <3>1. /\ step[d] = "work" /\ todo[d] = {} /\ Raises(event[p]) # None
          /\ saw' = [saw EXCEPT ![d] = opened[Raises(event[p])] > 0]
          /\ step' = [step EXCEPT ![d] = "raise"]
          /\ UNCHANGED <<vars, event, dataVars, todo>>
      BY <2>3, <2>11 DEF LookForOpen, At
    <3>2. /\ saw'[d] = (opened[Raises(event[p])] > 0) /\ step'[d] = "raise" /\ todo' = todo
          /\ status' = status /\ opened' = opened /\ handled' = handled /\ pc'[d] = "handle"
      BY <1>0, <2>1, <3>1 DEF vars, dataVars, SpineTypeOK
    <3>3. /\ "status" \in unsure \/ StatusAfter(event[p]) \in {None, status}
          /\ todo[d] \subseteq Clears(event[p])
          /\ \A c \in (Clears(event[p]) \ todo[d]) \ unsure : opened[c] = 0
      BY <1>0, <2>1, <2>2, <3>1 DEF Progress
    <3>4. Rewritten(d) = {} /\ unsure' = unsure
      <4>1. Rewritten(d) = {}
        BY <3>1, <3>2 DEF Rewritten
      <4> QED BY <4>1
    <3> QED BY <2>7, <2>8, <3>1, <3>2, <3>3, <3>4
  <2>12. CASE Raise(d)
    <3> DEFINE r == Raises(event[p])
    <3>1. /\ step[d] = "raise"
          /\ opened' = [opened EXCEPT ![r] = IF saw[d] THEN @ ELSE @ + 1]
          /\ Handle(d) /\ step' = [step EXCEPT ![d] = "begin"] /\ status' = status
      BY <2>3, <2>12 DEF Raise, At
    <3>2. handled'[Lifecycle] = handled[Lifecycle] \cup {p}
      BY <1>0, <1>b, <2>1, <2>3, <3>1 DEF Handle, TypeOK
    <3>3. /\ "status" \in unsure \/ StatusAfter(event[p]) \in {None, status}
          /\ todo[d] = {} /\ r # None
          /\ r \notin unsure => saw[d] = (opened[r] > 0)
          /\ \A c \in (Clears(event[p]) \ todo[d]) \ unsure : opened[c] = 0
      BY <1>0, <2>1, <2>2, <3>1 DEF Progress
    <3>4. step'[d] = "begin"
      BY <1>0, <3>1 DEF SpineTypeOK
    <3>5. r \in Codes
      BY <2>6, <3>3
    <3>9. Rewritten(d) = {} /\ unsure' = unsure
      <4>1. Rewritten(d) = {}
        BY <3>4 DEF Rewritten
      <4> QED BY <4>1
    <3> HIDE DEF r
    <3>a. r \notin unsure => (IF saw[d] THEN opened[r] ELSE opened[r] + 1) = 1
      <4> SUFFICES ASSUME r \notin unsure PROVE (IF saw[d] THEN opened[r] ELSE opened[r] + 1) = 1
        OBVIOUS
      <4>0. saw[d] = (opened[r] > 0) /\ opened[r] \in {0, 1}
        BY <2>7, <3>3, <3>5
      <4>1. CASE opened[r] = 0
        <5>1. ~(opened[r] > 0)
          BY <4>1
        <5>2. ~saw[d]
          BY <4>0, <5>1, Zenon
        <5> QED BY <4>1, <5>2
      <4>2. CASE opened[r] = 1
        <5>1. opened[r] > 0
          BY <4>2
        <5>2. saw[d] = TRUE
          BY <4>0, <5>1, Zenon
        <5> QED BY <4>2, <5>2
      <4> QED BY <4>0, <4>1, <4>2
    <3>6. \A c \in Codes \ unsure : opened'[c] = IF c = r THEN 1 ELSE opened[c]
      <4> SUFFICES ASSUME NEW c \in Codes \ unsure PROVE opened'[c] = IF c = r THEN 1 ELSE opened[c]
        OBVIOUS
      <4>1. CASE c = r
        BY <2>7, <3>1, <3>a, <4>1
      <4>2. CASE c # r
        BY <2>7, <3>1, <4>2
      <4> QED BY <4>1, <4>2
    <3>b. \A c \in Codes : opened'[c] = opened[c] \/ c = r
      BY <2>7, <3>1
    <3>7. /\ \A c \in Codes : c \notin unsure' => opened'[c] \in {0, 1}
          /\ \A c \in Codes : (opened'[c] = opened[c] /\ c \notin Rewritten(d)) \/ Touches(event[p], c)
      BY <2>7, <3>6, <3>9, <3>b DEF Touches, r
    <3>8. Applied(event[p], status', opened', unsure')
      BY <2>6, <3>1, <3>3, <3>6, <3>9 DEF Applied, r
    <3> QED BY <2>8, <3>1, <3>2, <3>4, <3>7, <3>8, <3>9
  <2>13. CASE Return(d)
    <3>1. /\ step[d] = "work" /\ todo[d] = {} /\ Raises(event[p]) = None /\ Handle(d)
          /\ step' = [step EXCEPT ![d] = "begin"] /\ status' = status /\ opened' = opened
      BY <1>0, <2>1, <2>3, <2>13 DEF Return, dataVars
    <3>2. handled'[Lifecycle] = handled[Lifecycle] \cup {p}
      BY <1>0, <1>b, <2>1, <2>3, <3>1 DEF Handle, TypeOK
    <3>3. /\ "status" \in unsure \/ StatusAfter(event[p]) \in {None, status}
          /\ \A c \in (Clears(event[p]) \ todo[d]) \ unsure : opened[c] = 0
      BY <1>0, <2>1, <2>2, <3>1 DEF Progress
    <3>4. step'[d] = "begin"
      BY <1>0, <3>1 DEF SpineTypeOK
    <3>9. Rewritten(d) = {} /\ unsure' = unsure
      <4>1. Rewritten(d) = {}
        BY <3>4 DEF Rewritten
      <4> QED BY <4>1
    <3>5. Applied(event[p], status', opened', unsure')
      BY <2>6, <3>1, <3>3, <3>9 DEF Applied
    <3> QED BY <2>7, <2>8, <3>1, <3>2, <3>4, <3>5, <3>9
  <2> QED BY <1>3, <2>9, <2>10, <2>11, <2>12, <2>13
<1>4. ~(OrphanCommits(d) \/ OrphanRollsBack(d) \/ StartAccrual(d) \/ InsertCharge(d) \/ StartLedger(d)
        \/ InsertLedger(d) \/ CommitCharge(d))
  <2>1. CASE OrphanCommits(d) \/ OrphanRollsBack(d)
    BY <2>1 DEF OrphanCommits, OrphanRollsBack, Draining
  <2>2. CASE CommitCharge(d)
    BY <1>0, <1>b, <2>2 DEF CommitCharge, WorkSound
  <2>3. ~(StartAccrual(d) \/ InsertCharge(d) \/ StartLedger(d) \/ InsertLedger(d))
    BY <1>0, <1>b DEF StartAccrual, InsertCharge, StartLedger, InsertLedger, At
  <2> QED BY <1>0, <1>b, <2>1, <2>2, <2>3 DEF OrphanCommits, OrphanRollsBack, Draining, CommitCharge, WorkSound
<1> QED BY <1>1, <1>2, <1>3, <1>4 DEF SpineTick, HandlerStep

\* Every step keeps CrossInv, for any number of instances.
LEMMA CrossNextInv == CrossInv /\ [CrossNext]_crossVars => CrossInv'
<1> SUFFICES ASSUME CrossInv, [CrossNext]_crossVars PROVE CrossInv'
  OBVIOUS
<1>0. /\ [SpineNext]_spineVars /\ SpineInv /\ SpineInv' /\ CrossSound /\ TablesRight(Unseen)
      /\ \A d \in Dispatchers \ crossed : Alone(d)
  BY SpineNextInv DEF CrossInv, CrossNext, crossVars
<1>1. CASE UNCHANGED crossVars
  <2>1. UNCHANGED <<spineVars, crossed, unsure>>
    BY <1>1 DEF crossVars, historyVars
  <2>2. \A d \in Dispatchers : Draining(d)' = Draining(d) /\ Ahead(d)' = Ahead(d)
    BY <2>1 DEF Draining, Ahead, AtWork, Unseen, spineVars, vars
  <2>3. CrossSound'
    BY <1>0, <2>1, <2>2 DEF CrossSound
  <2>4. TablesRight(Unseen)' /\ Done' = Done
        /\ \A d \in Dispatchers : TablesRight(Ahead(d)) => TablesRight(Ahead(d))'
    BY <1>0, <2>1, <2>2, TablesStay DEF spineVars, vars, dataVars
  <2>5. ASSUME NEW d \in Dispatchers \ crossed PROVE Alone(d)'
    <3>1. TablesRight(Ahead(d))' /\ PositionSound(d) /\ Progress(d)
      BY <1>0, <2>4 DEF Alone
    <3>2. PositionSound(d)' /\ Progress(d)'
      BY <2>1, <2>2, <2>4, <3>1
         DEF PositionSound, Progress, AtWork, IsNext, spineVars, vars, dataVars, localVars
    <3> QED BY <3>1, <3>2 DEF Alone
  <2> QED BY <1>0, <2>1, <2>3, <2>4, <2>5 DEF CrossInv
<1> SUFFICES ASSUME SpineNext, Remember PROVE CrossInv'
  BY <1>1 DEF CrossNext
<1>2. CrossSound' /\ \A d \in crossed : Draining(d)' => d \in crossed'
  BY <1>0 DEF Remember, CrossSound
\* An instance that drains uncrossed is the only one to drain; the others have their place
\* in the log taken with the next watermark they read.
<1>3. ASSUME TablesRight(Unseen)',
             \A d \in Dispatchers \ crossed' : Draining(d)' => Alone(d)'
      PROVE  CrossInv'
  <2>1. (SpineInv /\ TablesRight(Unseen))' => (\A d \in Dispatchers : ~Draining(d) => Alone(d))'
    BY NotDraining, PTL
  <2> QED BY <1>0, <1>2, <1>3, <2>1 DEF CrossInv
\* A step that leaves alone what the projector keeps.
<1>4. ASSUME NEW w, Elsewhere(w), w \in Dispatchers => SpineTick(w) \/ TickFault(w) \/ OrphanCommits(w),
             status' = status, opened' = opened,
             offset'[Lifecycle] = offset[Lifecycle], handled'[Lifecycle] = handled[Lifecycle],
             w \in Dispatchers => Rewritten(w) = {} \/ crossed # {},
             \A e \in Dispatchers \ {w} : after'[e] = after[e],
             w \in Dispatchers /\ w \notin crossed' /\ Draining(w)' =>
               pc'[w] = "select" /\ after'[w] = offset[Lifecycle] /\ batch'[w] = {}
      PROVE  CrossInv'
  <2>1. /\ committed \subseteq committed' /\ \A p \in committed : event'[p] = event[p]
        /\ \A e \in Dispatchers \ {w} : Draining(e)' = Draining(e) /\ Rewritten(e) = {}
    BY <1>0, <1>4, OthersKeep
  <2>2. unsure' = unsure
    <3>1. CASE crossed = {}
      <4>1. \A e \in Dispatchers : Rewritten(e) = {}
        BY <1>4, <2>1, <3>1
      <4>2. unsure' = unsure \ UNION {Rewritten(e) : e \in Dispatchers}
        BY <3>1 DEF Remember
      <4> QED BY <4>1, <4>2
    <3>2. CASE crossed # {}
      BY <1>4, <3>2 DEF Remember
    <3> QED BY <3>1, <3>2
  <2>3. TablesRight(Unseen)' /\ Done' = Done
        /\ \A e \in Dispatchers : TablesRight(Ahead(e)) /\ Ahead(e) \subseteq Ahead(e)' => TablesRight(Ahead(e))'
    BY <1>0, <1>4, <2>1, <2>2, TablesStay
  <2>4. Unseen \subseteq Unseen'
    BY <1>4, <2>1 DEF Unseen
  <2>5. ASSUME NEW e \in Dispatchers \ crossed', Draining(e)', e # w PROVE Alone(e)'
    <3>1. Draining(e) /\ e \notin crossed /\ Alone(e)
      BY <1>0, <1>2, <2>1, <2>5
    <3>2. /\ pc'[e] = pc[e] /\ cur'[e] = cur[e] /\ batch'[e] = batch[e] /\ after'[e] = after[e]
          /\ step'[e] = step[e] /\ todo'[e] = todo[e] /\ saw'[e] = saw[e]
      BY <1>4, <2>5 DEF Elsewhere
    <3>3. Ahead(e) \subseteq Ahead(e)'
      BY <2>4, <3>2 DEF Ahead, AtWork
    <3>4. TablesRight(Ahead(e))' /\ PositionSound(e) /\ Progress(e)
      BY <2>3, <3>1, <3>3 DEF Alone
    <3>5. PositionSound(e)'
      BY <1>4, <2>3, <3>2, <3>3, <3>4 DEF PositionSound, AtWork
    <3>6. \A p \in batch[e] : event'[p] = event[p]
      BY <1>0, <2>1, Numbers
    <3>7. Progress(e)'
      BY <1>4, <2>2, <3>2, <3>4, <3>6 DEF Progress, IsNext
    <3> QED BY <3>4, <3>5, <3>7 DEF Alone
  <2>6. ASSUME w \in Dispatchers \ crossed', Draining(w)' PROVE Alone(w)'
    <3>1. pc'[w] = "select" /\ after'[w] = offset'[Lifecycle] /\ batch'[w] = {}
      BY <1>4, <2>6
    <3>2. Ahead(w)' = Unseen' /\ ~AtWork(w)'
      BY <3>1 DEF Ahead, AtWork
    <3>3. TablesRight(Ahead(w))'
      BY <2>3, <3>2 DEF TablesRight
    <3>4. handled'[Lifecycle] \subseteq Done' \cup Unseen'
      <4> SUFFICES ASSUME NEW p \in handled'[Lifecycle], p \notin Done' PROVE p \in Unseen'
        OBVIOUS
      <4>1. p \in committed /\ p \in Nat /\ offset[Lifecycle] \in Nat /\ ~(p <= offset[Lifecycle])
        BY <1>0, <1>4, Numbers DEF Done
      <4> QED BY <1>4, <2>1, <4>1 DEF Unseen
    <3> QED BY <3>1, <3>2, <3>3, <3>4 DEF Alone, PositionSound, Progress
  <2> QED BY <1>3, <2>3, <2>5, <2>6
<1>5. ASSUME NEW w \in Outside, Arrive(w) \/ ArrivalCommits(w) \/ ArrivalRollsBack(w)
      PROVE  CrossInv'
  <2>1. UNCHANGED <<status, opened, offset, handled, after>>
    BY <1>5 DEF Arrive, ArrivalCommits, ArrivalRollsBack, WriterStamp, WriterCommit, WriterRollback,
                dispatchVars, dataVars
  <2>2. Elsewhere(w) /\ w \notin Dispatchers
    BY <1>0, <1>5, OutsideSound DEF Outside
  <2> QED BY <1>4, <2>1, <2>2
<1>6. ASSUME NEW d \in Dispatchers, SpineTick(d) \/ TickFault(d) \/ OrphanCommits(d)
      PROVE  CrossInv'
  <2>1. Elsewhere(d)
    BY <1>0, <1>6, HandlerSound, TickSound DEF SpineTick
  <2>2. CASE ~Draining(d)
    BY <1>0, <1>4, <1>6, <2>1, <2>2, OutsideProjector
  <2>3. CASE Draining(d) /\ d \in crossed
    <3>1. \A e \in Dispatchers \ {d} : Draining(e)' = Draining(e)
      BY <1>0, <1>6, <2>1, OthersKeep
    <3>2. \A e \in Dispatchers \ crossed' : ~Draining(e)'
      BY <1>0, <1>2, <2>3, <3>1 DEF CrossSound
    <3>3. CASE UNCHANGED <<status, opened, handled[Lifecycle], offset[Lifecycle]>>
      <4>1. /\ committed \subseteq committed' /\ \A p \in committed : event'[p] = event[p]
        BY <1>0, <1>6, <2>1, OthersKeep
      <4>2. unsure' = unsure
        BY <2>3, <3>3 DEF Remember
      <4>3. TablesRight(Unseen)'
        BY <1>0, <3>3, <4>1, <4>2, TablesStay
      <4> QED BY <1>3, <3>2, <4>3
    <3>4. CASE ~UNCHANGED <<status, opened, handled[Lifecycle], offset[Lifecycle]>>
      <4>1. unsure' = Parts
        BY <2>3, <3>4 DEF Remember
      <4>2. TablesRight(Unseen)'
        BY <4>1 DEF TablesRight, RightAt, Parts
      <4> QED BY <1>3, <3>2, <4>2
    <3> QED BY <3>3, <3>4
  <2>4. CASE Draining(d) /\ d \notin crossed
    <3>1. crossed = {} /\ \A e \in Dispatchers \ {d} : ~Draining(e)
      BY <1>0, <2>4 DEF CrossSound
    <3>2. \A e \in Dispatchers \ {d} : Rewritten(e) = {} /\ ~Draining(e)'
      BY <1>0, <1>6, <2>1, <3>1, OthersKeep
    <3>3. unsure' = unsure \ Rewritten(d)
      <4>1. unsure' = unsure \ UNION {Rewritten(e) : e \in Dispatchers}
        BY <3>1 DEF Remember
      <4>2. UNION {Rewritten(e) : e \in Dispatchers} = Rewritten(d)
        BY <3>2
      <4> QED BY <4>1, <4>2
    <3>4. IF Draining(d)' THEN Alone(d)' ELSE TablesRight(Unseen)'
      BY <1>0, <1>6, <2>4, <3>3, AloneSteps
    <3>5. Alone(d)' => TablesRight(Unseen)'
      <4>1. TablesRight(Ahead(d))' /\ Ahead(d)' \subseteq Unseen' => TablesRight(Unseen)'
        BY DEF TablesRight, RightAt
      <4> QED BY <4>1 DEF Alone, Ahead
    <3> QED BY <1>3, <3>2, <3>4, <3>5
  <2> QED BY <2>2, <2>3, <2>4
<1> QED BY <1>5, <1>6 DEF SpineNext

\* The history adds nothing to what the handlers do.
LEMMA CrossStepMaps == CrossSpec => SpineSpec
<1>1. CrossInit => SpineInit
  BY DEF CrossInit
<1>2. [CrossNext]_crossVars => [SpineNext]_spineVars
  BY DEF CrossNext, crossVars
<1> QED BY <1>1, <1>2, PTL DEF CrossSpec, SpineSpec

\* However many instances drain the log, across each other or not: once they have caught
\* up, the tables they wrote statement by statement, through faults, replays and events
\* that committed late, are what the reducer makes of the events in recorded order, except
\* where crossed drains wrote and no instance alone has set that part since; a milestone
\* after the delivery moves the table and not the reducer.
THEOREM ProjectionRecovers == CrossSpec => []ProjectionConverges
<1>1. CrossInit => CrossInv
  <2> SUFFICES ASSUME CrossInit PROVE CrossInv
    OBVIOUS
  <2>1. SpineInv /\ SpineInit /\ crossed = {} /\ unsure = {}
    BY SpineInitInv DEF CrossInit
  <2>2. /\ handled[Lifecycle] = {} /\ Done = {}
        /\ \A d \in Dispatchers : pc[d] = "idle"
    BY <2>1 DEF SpineInit, Init, Done, Handlers, Lifecycle
  <2>3. Replay(Done) = Fresh
    BY <2>2, ReplayNothing
  <2>4. TablesRight(Unseen)
    BY <2>1, <2>3 DEF SpineInit, TablesRight, RightAt, Fresh
  <2>5. \A d \in Dispatchers : ~Draining(d)
    BY <2>2 DEF Draining
  <2> QED BY <2>1, <2>4, <2>5, NotDraining DEF CrossInv, CrossSound
<1>2. CrossInv => ProjectionConverges
  <2> SUFFICES ASSUME CrossInv, Settled PROVE ProjectionConverges
    BY DEF ProjectionConverges
  <2>1. SpineInv /\ TablesRight(Unseen)
    BY DEF CrossInv
  <2>2. Unseen = {}
    <3> SUFFICES ASSUME NEW p \in Unseen PROVE FALSE
      OBVIOUS
    <3>1. p <= offset[Lifecycle]
      BY DEF Settled, Unseen
    <3> QED BY <2>1, <3>1, Numbers
  <2>3. Done = handled[Lifecycle]
    BY <2>1, Numbers DEF Settled, Done
  <2> DEFINE H == handled[Lifecycle]
             R == Replay(H)
  <2>4. RightAt(H, {}, R, status, opened, event, unsure)
    BY <2>1, <2>2, <2>3 DEF TablesRight
  <2> HIDE DEF H, R
  <2>5. /\ \/ "status" \in unsure
           \/ status = R.status
           \/ /\ R.status = "DELIVERED"
              /\ \E p, q \in H : p < q /\ event[p].type = "pod.confirmed" /\ StatusAfter(event[q]) = status
        /\ \A k \in Codes \ unsure : opened[k] = IF k \in R.open THEN 1 ELSE 0
    BY <2>4 DEF RightAt
  <2> QED BY <2>5 DEF ProjectionConverges, H, R
<1> QED BY <1>1, <1>2, CrossNextInv, PTL DEF CrossSpec

=============================================================================
