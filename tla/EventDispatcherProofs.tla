------------------------ MODULE EventDispatcherProofs ------------------------
(***************************************************************************)
(* Proofs about the event dispatcher, for any number of instances,         *)
(* handlers, writers and events, any batch size, any set of failing events *)
(* and any number of faults.                                               *)
(*                                                                         *)
(* WatermarkSound is not inductive: it says nothing of the rows an         *)
(* instance holds in memory.  DispatchInv adds, for each instance, that    *)
(* the rows of its batch together with those its handler has processed     *)
(* leave no gap below them (BatchSound), and that the processed events     *)
(* themselves leave no gap (HandledSound).  An event that commits later    *)
(* into such a gap is late by definition.                                  *)
(***************************************************************************)
EXTENDS EventDispatcher, TLAPS

\* An event sits in one transaction at most and is invisible until it commits.
LogSound ==
  /\ \A w \in Writers : open[w] \cap committed = {}
  /\ \A v, w \in Writers : v # w => open[v] \cap open[w] = {}

HandledSound ==
  \A h \in Handlers :
    /\ handled[h] \subseteq committed
    /\ offset[h] \in handled[h] \cup {0}
    /\ \A e \in handled[h], p \in committed \ late[h] :
         p < e => p \in handled[h]

\* What instance d holds in memory agrees with the durable state.
BatchSound(d) ==
  /\ after[d] \in handled[cur[d]] \cup {0}
  /\ pc[d] \notin {"handle", "advance"} => batch[d] = {}
  /\ batch[d] \subseteq committed
  /\ \A e \in batch[d], p \in committed \ late[cur[d]] :
       p < e => p \in handled[cur[d]] \cup batch[d]
  /\ pc[d] = "advance" =>
       \A p \in batch[d] : IsNext(d, p) => p \in handled[cur[d]]

DispatchInv ==
  /\ TypeOK
  /\ LogSound
  /\ HandledSound
  /\ \A d \in Dispatchers : BatchSound(d)

-----------------------------------------------------------------------------
(* Types.                                                                  *)

LEMMA InitType == Init => TypeOK
  BY EventLogAssumption, DispatcherAssumption
     DEF Init, LogInit, TypeOK, LogTypeOK, Handlers, Positions

\* A step of a writer keeps the types.
LEMMA WriterType ==
  ASSUME NEW w \in Writers, TypeOK, WriterStep(w)
  PROVE  TypeOK'
<1> USE EventLogAssumption, DispatcherAssumption
        DEF TypeOK, LogTypeOK, Handlers, Positions
<1>1. CASE WriterStamp(w)
  BY <1>1 DEF WriterStamp, Stamp, dispatchVars
<1>2. CASE WriterCommit(w)
  <2>1. LogTypeOK'
    BY <1>2 DEF WriterCommit, Commit
  <2>2. late' \in [Handlers -> SUBSET Positions]
    BY <1>2 DEF WriterCommit
  <2> QED
    BY <1>2, <2>1, <2>2 DEF WriterCommit
<1>3. CASE WriterRollback(w)
  BY <1>3 DEF WriterRollback, Rollback, dispatchVars
<1> QED
  BY <1>1, <1>2, <1>3 DEF WriterStep

\* A step of a tick, or a fault, keeps the types.
LEMMA TickType ==
  ASSUME NEW d \in Dispatchers, TypeOK, TickStep(d) \/ Fault(d)
  PROVE  TypeOK'
<1> USE EventLogAssumption, DispatcherAssumption
        DEF TypeOK, LogTypeOK, Handlers, Positions
<1>1. CASE StartTick(d)
  BY <1>1 DEF StartTick, logVars
<1>2. CASE ReadOffset(d)
  BY <1>2 DEF ReadOffset, logVars
<1>3. CASE SelectBatch(d)
  <2>1. committed \subseteq 1 .. MaxEvents
    OBVIOUS
  <2>2. Pending(d) \subseteq 1 .. MaxEvents
    BY <2>1 DEF Pending
  <2> QED
    BY <1>3, <2>2 DEF SelectBatch, logVars
<1>4. CASE DrainDone(d)
  <2>1. cur[d] < NumHandlers => cur[d] + 1 \in 1 .. NumHandlers
    OBVIOUS
  <2>2. 1 \in 1 .. NumHandlers
    OBVIOUS
  <2>3. cur' \in [Dispatchers -> 1 .. NumHandlers]
    BY <1>4, <2>1, <2>2 DEF DrainDone
  <2>4. pc' \in [Dispatchers -> {"idle", "read", "select", "handle", "advance"}]
    BY <1>4 DEF DrainDone
  <2> QED
    BY <1>4, <2>3, <2>4 DEF DrainDone, logVars
<1>5. CASE Handle(d)
  <2>1. PICK p \in batch[d] : handled' = [handled EXCEPT ![cur[d]] = @ \cup {p}]
    BY <1>5 DEF Handle
  <2>2. p \in 1 .. MaxEvents
    OBVIOUS
  <2>3. handled' \in [Handlers -> SUBSET Positions]
    BY <2>1, <2>2
  <2> QED
    BY <1>5, <2>3 DEF Handle, logVars
<1>6. CASE Advance(d)
  BY <1>6 DEF Advance, logVars
<1>7. CASE HandlerPoisoned(d)
  BY <1>7 DEF HandlerPoisoned, Abandon, logVars
<1>8. CASE Fault(d)
  BY <1>8 DEF Fault, Abandon, logVars
<1> QED
  BY <1>1, <1>2, <1>3, <1>4, <1>5, <1>6, <1>7, <1>8 DEF TickStep

LEMMA NextType == TypeOK /\ [Next]_vars => TypeOK'
<1> SUFFICES ASSUME TypeOK, [Next]_vars PROVE TypeOK'
  OBVIOUS
<1>1. CASE UNCHANGED vars
  BY <1>1 DEF vars, TypeOK, LogTypeOK
<1>2. CASE Next
  BY <1>2, WriterType, TickType DEF Next
<1> QED
  BY <1>1, <1>2

\* Every variable keeps its type: positions stay in bounds, watermarks and
\* batches refer to events that exist.
THEOREM TypeCorrect == Spec => []TypeOK
  BY InitType, NextType, PTL DEF Spec

-----------------------------------------------------------------------------
(* The inductive invariant.                                                *)

LEMMA InitInv == Init => DispatchInv
<1> SUFFICES ASSUME Init PROVE LogSound /\ HandledSound /\ \A d \in Dispatchers : BatchSound(d)
  BY InitType DEF DispatchInv
<1>1. LogSound
  BY DEF Init, LogInit, LogSound
<1>2. HandledSound
  BY DEF Init, LogInit, HandledSound
<1>3. ASSUME NEW d \in Dispatchers PROVE BatchSound(d)
  BY DispatcherAssumption DEF Init, LogInit, BatchSound, Handlers
<1> QED
  BY <1>1, <1>2, <1>3

\* Writers keep transactions apart, and dispatchers do not touch the log.
LEMMA LogSoundStep ==
  ASSUME TypeOK, LogSound, Next
  PROVE  LogSound'
<1> USE DEF LogSound, TypeOK, LogTypeOK
<1>1. ASSUME NEW w \in Writers, WriterStamp(w) PROVE LogSound'
  <2>1. clock + 1 \notin 1 .. clock
    OBVIOUS
  <2>2. \A v \in Writers : clock + 1 \notin open[v]
    BY <2>1
  <2>3. clock + 1 \notin committed
    BY <2>1
  <2> QED
    BY <1>1, <2>2, <2>3 DEF WriterStamp, Stamp
<1>2. ASSUME NEW w \in Writers, WriterCommit(w) PROVE LogSound'
  BY <1>2 DEF WriterCommit, Commit
<1>3. ASSUME NEW w \in Writers, WriterRollback(w) PROVE LogSound'
  BY <1>3 DEF WriterRollback, Rollback
<1>4. ASSUME NEW d \in Dispatchers, TickStep(d) \/ Fault(d) PROVE LogSound'
  BY <1>4 DEF TickStep, StartTick, ReadOffset, SelectBatch, DrainDone, Handle,
              Advance, HandlerPoisoned, Fault, Abandon, logVars
<1> QED
  BY <1>1, <1>2, <1>3, <1>4 DEF Next, WriterStep

\* An event that is not late surfaces above everything h has taken up.
LEMMA NotLateIsAbove ==
  ASSUME TypeOK, NEW w \in Writers, WriterCommit(w),
         NEW h \in Handlers, NEW p \in committed' \ late'[h], p \notin committed,
         NEW e \in TakenUp(h)
  PROVE  ~(e > p)
<1>1. p \in open[w]
  BY DEF WriterCommit, Commit
<1>2. late'[h] = late[h] \cup {r \in open[w] : \E q \in TakenUp(h) : q > r}
  BY DEF WriterCommit
<1> QED
  BY <1>1, <1>2

LEMMA CommitKeepsSound ==
  ASSUME DispatchInv, NEW w \in Writers, WriterCommit(w)
  PROVE  HandledSound' /\ \A d \in Dispatchers : BatchSound(d)'
<1> USE DEF DispatchInv
<1>1. UNCHANGED <<offset, handled, pc, cur, after, batch>> /\ committed \subseteq committed'
  BY DEF WriterCommit, Commit
<1>2. \A h \in Handlers : late[h] \subseteq late'[h]
  BY DEF WriterCommit
<1>3. HandledSound'
  <2>1. ASSUME NEW h \in Handlers, NEW e \in handled[h], NEW p \in committed' \ late'[h], p < e
        PROVE  p \in handled[h]
    <3>1. CASE p \in committed
      BY <3>1, <2>1, <1>2 DEF HandledSound
    <3>2. CASE p \notin committed
      <4>1. e \in TakenUp(h)
        BY <2>1 DEF TakenUp
      <4>2. p \in Nat /\ e \in Nat
        BY <2>1 DEF TypeOK, LogTypeOK, Positions, WriterCommit, Commit
      <4> QED
        BY <3>2, <4>1, <4>2, <2>1, NotLateIsAbove
    <3> QED
      BY <3>1, <3>2
  <2> QED
    BY <1>1, <2>1 DEF HandledSound
<1>4. ASSUME NEW d \in Dispatchers PROVE BatchSound(d)'
  <2>1. ASSUME NEW e \in batch[d], NEW p \in committed' \ late'[cur[d]], p < e
        PROVE  p \in handled[cur[d]] \cup batch[d]
    <3>0. cur[d] \in Handlers
      BY DEF TypeOK
    <3>1. CASE p \in committed
      BY <3>0, <3>1, <2>1, <1>2 DEF BatchSound
    <3>2. CASE p \notin committed
      <4>1. e \in TakenUp(cur[d])
        BY <2>1 DEF TakenUp
      <4>2. p \in Nat /\ e \in Nat
        BY <2>1 DEF TypeOK, LogTypeOK, Positions, WriterCommit, Commit
      <4> QED
        BY <3>0, <3>2, <4>1, <4>2, <2>1, NotLateIsAbove
    <3> QED
      BY <3>1, <3>2
  <2> QED
    BY <1>1, <2>1 DEF BatchSound, IsNext
<1> QED
  BY <1>3, <1>4

\* A selected batch leaves no gap between the watermark it was read with and
\* its last row.
LEMMA SelectKeepsSound ==
  ASSUME DispatchInv, NEW d \in Dispatchers, SelectBatch(d)
  PROVE  BatchSound(d)'
<1> USE DEF DispatchInv
<1>1. PICK B \in SUBSET Pending(d) :
        IsBatch(B, Pending(d)) /\ batch' = [batch EXCEPT ![d] = B]
  BY DEF SelectBatch
<1> DEFINE h == cur[d]
<1>2. h \in Handlers /\ after[d] \in Nat /\ committed \subseteq Nat /\ B \subseteq committed
  BY DEF TypeOK, LogTypeOK, Pending
<1>3. batch'[d] = B /\ pc'[d] = "handle" /\ after'[d] = 0
  BY <1>1 DEF SelectBatch, TypeOK
<1>4. UNCHANGED <<committed, handled, late, cur>>
  BY DEF SelectBatch, logVars
<1>5. ASSUME NEW e \in B, NEW p \in committed \ late[h], p < e
      PROVE  p \in handled[h] \cup B
  <2>1. CASE p > after[d]
    <3>1. p \in Pending(d) /\ e \in Nat /\ p \in Nat
      BY <2>1, <1>2 DEF Pending
    <3>2. p \notin B => e < p
      BY <3>1, <1>1 DEF IsBatch
    <3> QED
      BY <3>1, <3>2, <1>5
  <2>2. CASE ~(p > after[d])
    <3>1. p = after[d] \/ p < after[d]
      BY <2>2, <1>2
    <3>2. after[d] \in handled[h]
      <4>1. after[d] \in handled[h] \cup {0}
        BY DEF BatchSound
      <4>2. p \in 1 .. MaxEvents
        BY EventLogAssumption DEF TypeOK, LogTypeOK
      <4> QED
        BY <4>1, <4>2, <3>1
    <3> QED
      BY <3>1, <3>2, <1>2 DEF HandledSound
  <2> QED
    BY <2>1, <2>2
<1> QED
  BY <1>2, <1>3, <1>4, <1>5 DEF BatchSound

\* The next row has nothing unprocessed before it, so processing it leaves no gap.
LEMMA HandleKeepsSound ==
  ASSUME DispatchInv, NEW d \in Dispatchers, Handle(d)
  PROVE  HandledSound' /\ \A c \in Dispatchers : BatchSound(c)'
<1> USE DEF DispatchInv
<1> DEFINE h == cur[d]
<1>1. PICK n \in batch[d] :
        IsNext(d, n) /\ handled' = [handled EXCEPT ![h] = @ \cup {n}]
  BY DEF Handle
<1>2. UNCHANGED <<committed, offset, late, cur, after, batch>> /\ h \in Handlers
  BY DEF Handle, logVars, TypeOK
<1>3. handled'[h] = handled[h] \cup {n} /\ \A g \in Handlers : g # h => handled'[g] = handled[g]
  BY <1>1, <1>2 DEF TypeOK
<1>4. \A g \in Handlers : handled[g] \subseteq handled'[g]
  BY <1>3
<1>5. ASSUME NEW p \in committed \ late[h], p < n PROVE p \in handled[h]
  <2>1. p \in handled[h] \cup batch[d]
    BY <1>5 DEF BatchSound
  <2>2. p \in batch[d] => n <= p
    BY <1>1 DEF IsNext
  <2>3. p \in Nat /\ n \in Nat
    BY DEF TypeOK, LogTypeOK, Positions
  <2> QED
    BY <2>1, <2>2, <2>3, <1>5
<1>6. HandledSound'
  <2>1. ASSUME NEW g \in Handlers
        PROVE  /\ handled'[g] \subseteq committed
               /\ offset[g] \in handled'[g] \cup {0}
               /\ \A e \in handled'[g], p \in committed \ late[g] :
                    p < e => p \in handled'[g]
    <3>1. handled'[g] \subseteq committed
      BY <1>1, <1>3 DEF HandledSound, BatchSound
    <3>2. offset[g] \in handled'[g] \cup {0}
      BY <1>4 DEF HandledSound
    <3>3. ASSUME NEW e \in handled'[g], NEW p \in committed \ late[g], p < e
          PROVE  p \in handled'[g]
      <4>1. CASE e \in handled[g]
        BY <4>1, <3>3, <1>4 DEF HandledSound
      <4>2. CASE e \notin handled[g]
        BY <4>2, <3>3, <1>3, <1>4, <1>5
      <4> QED
        BY <4>1, <4>2
    <3> QED
      BY <3>1, <3>2, <3>3
  <2> QED
    BY <2>1, <1>2 DEF HandledSound
<1>7. ASSUME NEW c \in Dispatchers PROVE BatchSound(c)'
  <2>1. cur[c] \in Handlers
    BY DEF TypeOK
  <2>2. CASE c = d
    <3>1. pc'[d] = "advance" /\ pc[d] = "handle"
      BY DEF Handle, TypeOK
    <3>2. \A p \in batch[d] : IsNext(d, p) => p = n
      BY <1>1 DEF IsNext, TypeOK, Positions
    <3> QED
      BY <2>1, <2>2, <3>1, <3>2, <1>2, <1>3, <1>4 DEF BatchSound, IsNext
  <2>3. CASE c # d
    <3>1. pc'[c] = pc[c]
      BY <2>3 DEF Handle, TypeOK
    <3> QED
      BY <2>1, <2>3, <3>1, <1>2, <1>4 DEF BatchSound, IsNext
  <2> QED
    BY <2>2, <2>3
<1> QED
  BY <1>6, <1>7

\* The watermark moves to a row that has been processed.
LEMMA AdvanceKeepsSound ==
  ASSUME DispatchInv, NEW d \in Dispatchers, Advance(d)
  PROVE  HandledSound' /\ BatchSound(d)'
<1> USE DEF DispatchInv
<1>1. PICK n \in batch[d] :
        /\ IsNext(d, n)
        /\ offset' = [offset EXCEPT ![cur[d]] = n]
        /\ batch' = [batch EXCEPT ![d] = @ \ {n}]
        /\ pc' = [pc EXCEPT ![d] = IF batch[d] = {n} THEN "read" ELSE "handle"]
  BY DEF Advance
<1>2. /\ UNCHANGED <<committed, handled, late, cur, after>>
      /\ pc[d] = "advance" /\ cur[d] \in Handlers
  BY DEF Advance, logVars, TypeOK
<1>3. n \in handled[cur[d]]
  BY <1>1, <1>2 DEF BatchSound
<1>4. HandledSound'
  BY <1>1, <1>2, <1>3 DEF HandledSound, TypeOK
<1>5. batch'[d] = batch[d] \ {n} /\ pc'[d] = IF batch[d] = {n} THEN "read" ELSE "handle"
  BY <1>1 DEF TypeOK
<1>6. BatchSound(d)'
  BY <1>2, <1>3, <1>5 DEF BatchSound
<1> QED
  BY <1>4, <1>6

\* The remaining steps of a tick change only what the instance holds in memory,
\* and leave it with nothing or with the watermark it just read.
LEMMA LocalStepKeepsSound ==
  ASSUME DispatchInv, NEW d \in Dispatchers,
         \/ StartTick(d) \/ ReadOffset(d) \/ DrainDone(d)
         \/ HandlerPoisoned(d) \/ Fault(d)
  PROVE  HandledSound' /\ BatchSound(d)'
<1> USE DEF DispatchInv
<1>1. UNCHANGED <<committed, offset, handled, late>>
  BY DEF StartTick, ReadOffset, DrainDone, HandlerPoisoned, Fault, Abandon, logVars
<1>2. HandledSound'
  BY <1>1 DEF HandledSound
<1>3. CASE StartTick(d)
  BY <1>1, <1>2, <1>3 DEF StartTick, BatchSound, TypeOK
<1>4. CASE ReadOffset(d)
  <2>1. after'[d] = offset[cur[d]] /\ pc'[d] = "select" /\ pc[d] = "read"
    BY <1>4 DEF ReadOffset, TypeOK
  <2>2. offset[cur[d]] \in handled[cur[d]] \cup {0}
    BY DEF HandledSound, TypeOK
  <2> QED
    BY <1>1, <1>2, <1>4, <2>1, <2>2 DEF ReadOffset, BatchSound
<1>5. CASE DrainDone(d)
  <2>1. batch[d] = {} /\ batch' = batch /\ after'[d] = 0 /\ pc'[d] \in {"read", "idle"}
    BY <1>5 DEF DrainDone, BatchSound, TypeOK
  <2> QED
    BY <1>1, <1>2, <2>1 DEF BatchSound
<1>6. CASE HandlerPoisoned(d) \/ Fault(d)
  <2>1. batch'[d] = {} /\ after'[d] = 0 /\ pc'[d] = "idle"
    BY <1>6 DEF HandlerPoisoned, Fault, Abandon, TypeOK
  <2> QED
    BY <1>1, <1>2, <2>1 DEF BatchSound
<1> QED
  BY <1>2, <1>3, <1>4, <1>5, <1>6

\* A step of d other than Handle does not reach what another instance holds.
LEMMA OtherInstancesKeepSound ==
  ASSUME DispatchInv, NEW d \in Dispatchers, TickStep(d) \/ Fault(d), ~Handle(d),
         NEW c \in Dispatchers, c # d
  PROVE  BatchSound(c)'
<1>1. UNCHANGED <<committed, handled, late>>
  BY DEF TickStep, StartTick, ReadOffset, SelectBatch, DrainDone, Advance,
         HandlerPoisoned, Fault, Abandon, logVars
<1>2. /\ pc'[c] = pc[c] /\ cur'[c] = cur[c]
      /\ after'[c] = after[c] /\ batch'[c] = batch[c]
  BY DEF TickStep, StartTick, ReadOffset, SelectBatch, DrainDone, Advance,
         HandlerPoisoned, Fault, Abandon, DispatchInv, TypeOK
<1> QED
  BY <1>1, <1>2 DEF DispatchInv, BatchSound, IsNext

LEMMA TickKeepsSound ==
  ASSUME DispatchInv, NEW d \in Dispatchers, TickStep(d) \/ Fault(d)
  PROVE  HandledSound' /\ \A c \in Dispatchers : BatchSound(c)'
<1>1. CASE Handle(d)
  BY <1>1, HandleKeepsSound
<1>2. CASE ~Handle(d)
  <2>1. HandledSound' /\ BatchSound(d)'
    <3>1. CASE SelectBatch(d)
      BY <3>1, SelectKeepsSound DEF DispatchInv, HandledSound, SelectBatch, logVars
    <3>2. CASE Advance(d)
      BY <3>2, AdvanceKeepsSound
    <3> QED
      BY <1>2, <3>1, <3>2, LocalStepKeepsSound DEF TickStep
  <2>2. ASSUME NEW c \in Dispatchers, c # d PROVE BatchSound(c)'
    BY <1>2, <2>2, OtherInstancesKeepSound
  <2> QED
    BY <2>1, <2>2
<1> QED
  BY <1>1, <1>2

LEMMA WriterKeepsSound ==
  ASSUME DispatchInv, NEW w \in Writers, WriterStep(w)
  PROVE  HandledSound' /\ \A c \in Dispatchers : BatchSound(c)'
<1>1. CASE WriterCommit(w)
  BY <1>1, CommitKeepsSound
<1>2. CASE WriterStamp(w) \/ WriterRollback(w)
  BY <1>2 DEF WriterStamp, Stamp, WriterRollback, Rollback, dispatchVars,
              DispatchInv, HandledSound, BatchSound, IsNext
<1> QED
  BY <1>1, <1>2 DEF WriterStep

LEMMA NextInv == DispatchInv /\ [Next]_vars => DispatchInv'
<1> SUFFICES ASSUME DispatchInv, [Next]_vars PROVE DispatchInv'
  OBVIOUS
<1>1. TypeOK'
  BY NextType DEF DispatchInv
<1>2. CASE UNCHANGED vars
  BY <1>1, <1>2 DEF vars, DispatchInv, LogSound, HandledSound, BatchSound, IsNext
<1>3. CASE Next
  <2>1. LogSound'
    BY <1>3, LogSoundStep DEF DispatchInv
  <2>2. HandledSound' /\ \A d \in Dispatchers : BatchSound(d)'
    BY <1>3, WriterKeepsSound, TickKeepsSound DEF Next
  <2> QED
    BY <1>1, <2>1, <2>2 DEF DispatchInv
<1> QED
  BY <1>2, <1>3

LEMMA InvariantHolds == Spec => []DispatchInv
  BY InitInv, NextInv, PTL DEF Spec

LEMMA InvImpliesWatermarkSound == DispatchInv => WatermarkSound
<1> SUFFICES ASSUME DispatchInv,
                    NEW h \in Handlers, NEW p \in committed \ late[h], p <= offset[h]
             PROVE  p \in handled[h]
  BY DEF WatermarkSound
<1>1. p \in Nat /\ p # 0 /\ offset[h] \in Nat
  BY EventLogAssumption DEF DispatchInv, TypeOK, LogTypeOK
<1>2. offset[h] \in handled[h]
  BY <1>1 DEF DispatchInv, HandledSound
<1>3. p = offset[h] \/ p < offset[h]
  BY <1>1
<1> QED
  BY <1>2, <1>3 DEF DispatchInv, HandledSound

\* No restart from a stored watermark can skip an event: every visible event at
\* or below it was processed, but for those that committed behind it.
THEOREM WatermarkIsSound == Spec => []WatermarkSound
  BY InvariantHolds, InvImpliesWatermarkSound, PTL

-----------------------------------------------------------------------------
(* Refinement of OrderedDelivery.                                          *)

LEMMA InitRefines == Init => Delivery!Init
  BY DEF Init, LogInit, Delivery!Init

LEMMA CommitRefines ==
  ASSUME DispatchInv, NEW w \in Writers, WriterCommit(w)
  PROVE  Delivery!Next
<1> USE DEF DispatchInv
<1>1. open[w] \in SUBSET (Positions \ committed)
  BY EventLogAssumption DEF TypeOK, LogTypeOK, LogSound, Positions
<1>2. committed' = committed \cup open[w] /\ UNCHANGED handled
  BY DEF WriterCommit, Commit
<1>3. late' = [h \in Handlers |->
                 late[h] \cup {p \in open[w] : \E q \in TakenUp(h) : q > p}]
  BY DEF WriterCommit
<1>4. late' \in [Handlers -> SUBSET Positions]
  BY NextType DEF TypeOK, Next, WriterStep
<1>5. \A h \in Handlers : TakenUp(h) \subseteq committed
  BY DEF TakenUp, HandledSound, BatchSound
<1>6. ASSUME NEW h \in Handlers
      PROVE  /\ late[h] \subseteq late'[h]
             /\ \A p \in late'[h] \ late[h] :
                  p \in open[w] /\ \E q \in committed : q > p
  BY <1>3, <1>5
<1>7. Delivery!Appear(open[w])
  BY <1>2, <1>4, <1>6 DEF Delivery!Appear
<1> QED
  BY <1>1, <1>7 DEF Delivery!Next

LEMMA HandleRefines ==
  ASSUME DispatchInv, NEW d \in Dispatchers, Handle(d)
  PROVE  Delivery!Next
<1> USE DEF DispatchInv
<1> DEFINE h == cur[d]
<1>1. PICK n \in batch[d] :
        IsNext(d, n) /\ handled' = [handled EXCEPT ![h] = @ \cup {n}]
  BY DEF Handle
<1>2. h \in Handlers /\ n \in Positions /\ n \in committed
  BY DEF TypeOK, BatchSound
<1>3. ASSUME NEW q \in committed \ late[h], q < n PROVE q \in handled[h]
  <2>1. q \in handled[h] \cup batch[d]
    BY <1>3 DEF BatchSound
  <2>2. q \in batch[d] => n <= q
    BY <1>1 DEF IsNext
  <2>3. q \in Nat /\ n \in Nat
    BY <1>2 DEF TypeOK, LogTypeOK, Positions
  <2> QED
    BY <2>1, <2>2, <2>3, <1>3
<1>4. UNCHANGED <<committed, late>>
  BY DEF Handle, logVars
<1>5. Delivery!Receive(h, n)
  BY <1>1, <1>2, <1>3, <1>4 DEF Delivery!Receive
<1> QED
  BY <1>2, <1>5 DEF Delivery!Next

\* Every step of the dispatcher is a step of ordered delivery or changes
\* nothing that it speaks of.
LEMMA StepRefines ==
  DispatchInv /\ [Next]_vars => [Delivery!Next]_(Delivery!deliveryVars)
<1> SUFFICES ASSUME DispatchInv, [Next]_vars
             PROVE  Delivery!Next \/ UNCHANGED <<committed, late, handled>>
  BY DEF Delivery!deliveryVars
<1>1. ASSUME NEW w \in Writers, WriterStep(w)
      PROVE  Delivery!Next \/ UNCHANGED <<committed, late, handled>>
  <2>1. CASE WriterCommit(w)
    BY <2>1, CommitRefines
  <2>2. CASE WriterStamp(w) \/ WriterRollback(w)
    BY <2>2 DEF WriterStamp, Stamp, WriterRollback, Rollback, dispatchVars
  <2> QED
    BY <1>1, <2>1, <2>2 DEF WriterStep
<1>2. ASSUME NEW d \in Dispatchers, TickStep(d) \/ Fault(d)
      PROVE  Delivery!Next \/ UNCHANGED <<committed, late, handled>>
  <2>1. CASE Handle(d)
    BY <2>1, HandleRefines
  <2>2. CASE ~Handle(d)
    BY <1>2, <2>2 DEF TickStep, StartTick, ReadOffset, SelectBatch, DrainDone,
                      Advance, HandlerPoisoned, Fault, Abandon, logVars
  <2> QED
    BY <2>1, <2>2
<1>3. CASE UNCHANGED vars
  BY <1>3 DEF vars
<1> QED
  BY <1>1, <1>2, <1>3 DEF Next

\* The dispatchers implement ordered at-least-once delivery (safety part).
THEOREM DispatcherRefines == Spec => ImplementsOrderedDelivery
<1>1. Spec => Delivery!Init
  BY InitRefines DEF Spec
<1>2. DispatchInv /\ [Next]_vars => [Delivery!Next]_(Delivery!deliveryVars)
  BY StepRefines
<1> QED
  BY <1>1, <1>2, InvariantHolds, PTL DEF Spec, ImplementsOrderedDelivery, Delivery!Spec
=============================================================================
