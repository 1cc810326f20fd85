--------------------------- MODULE EventDispatcher ---------------------------
(***************************************************************************)
(* The in-process event consumer of the API                                *)
(* (projector/event-dispatcher.service.ts).  Every API instance runs one.  *)
(* A tick drains the registered handlers one after another; draining a     *)
(* handler reads its durable watermark, selects a batch of events past it, *)
(* and for each event calls the handler and then stores the watermark.     *)
(* The `ticking' flag keeps one instance from overlapping itself, and      *)
(* nothing keeps two instances apart.                                      *)
(*                                                                         *)
(* A handler is its place in the registration order, and what it does to   *)
(* an event is abstracted to "it has processed it" (`handled'); module     *)
(* Projections replaces that by the real handlers.  MaxFaults bounds the   *)
(* crashes and the transient errors of a behaviour.                        *)
(***************************************************************************)
EXTENDS EventLog

CONSTANTS
  Dispatchers,  \* API instances
  NumHandlers,  \* registered handlers, in the order 1..NumHandlers
  BatchSize,    \* OUTBOX_BATCH_SIZE
  Poison,       \* pairs <<h, p>>: handler h fails on event p every time
  MaxFaults     \* bound: crashes and transient handler errors

Handlers == 1 .. NumHandlers

ASSUME DispatcherAssumption ==
  /\ NumHandlers \in Nat \ {0}
  /\ BatchSize \in Nat \ {0}
  /\ Poison \subseteq Handlers \X Positions
  /\ MaxFaults \in Nat

VARIABLES
  offset,    \* consumer_offsets: offset[h] is h's durable watermark
  handled,   \* history: events h has processed at least once
  late,      \* history: events that surfaced behind work h had taken up
  pc,        \* where the tick of each instance stands
  cur,       \* the handler the tick is draining
  after,     \* the watermark read for the next select, 0 once used
  batch,     \* the rows of the batch not yet done
  faults     \* faults so far

dispatchVars == <<offset, handled, late, pc, cur, after, batch, faults>>
vars == <<clock, open, committed,
          offset, handled, late, pc, cur, after, batch, faults>>

TypeOK ==
  /\ LogTypeOK
  /\ offset \in [Handlers -> 0 .. MaxEvents]
  /\ handled \in [Handlers -> SUBSET Positions]
  /\ late \in [Handlers -> SUBSET Positions]
  /\ pc \in [Dispatchers -> {"idle", "read", "select", "handle", "advance"}]
  /\ cur \in [Dispatchers -> Handlers]
  /\ after \in [Dispatchers -> 0 .. MaxEvents]
  /\ batch \in [Dispatchers -> SUBSET Positions]
  /\ faults \in 0 .. MaxFaults

Init ==
  /\ LogInit
  /\ offset = [h \in Handlers |-> 0]
  /\ handled = [h \in Handlers |-> {}]
  /\ late = [h \in Handlers |-> {}]
  /\ pc = [d \in Dispatchers |-> "idle"]
  /\ cur = [d \in Dispatchers |-> 1]
  /\ after = [d \in Dispatchers |-> 0]
  /\ batch = [d \in Dispatchers |-> {}]
  /\ faults = 0

-----------------------------------------------------------------------------
(* Writers.  A commit is late for h when an event that sorts after it has  *)
(* already been processed for h or sits in a batch selected for h.         *)

TakenUp(h) ==
  handled[h] \cup UNION {batch[d] : d \in {c \in Dispatchers : cur[c] = h}}

WriterStamp(w) ==
  /\ Stamp(w)
  /\ UNCHANGED dispatchVars

WriterCommit(w) ==
  /\ Commit(w)
  /\ late' = [h \in Handlers |->
                late[h] \cup {p \in open[w] : \E q \in TakenUp(h) : q > p}]
  /\ UNCHANGED <<offset, handled, pc, cur, after, batch, faults>>

WriterRollback(w) ==
  /\ Rollback(w)
  /\ UNCHANGED dispatchVars

-----------------------------------------------------------------------------
(* The tick of instance d.                                                 *)

\* safeTick: not already ticking; the first handler is drained first.
StartTick(d) ==
  /\ pc[d] = "idle"
  /\ pc' = [pc EXCEPT ![d] = "read"]
  /\ UNCHANGED <<logVars, offset, handled, late, cur, after, batch, faults>>

\* drain: read the handler's watermark.
ReadOffset(d) ==
  /\ pc[d] = "read"
  /\ after' = [after EXCEPT ![d] = offset[cur[d]]]
  /\ pc' = [pc EXCEPT ![d] = "select"]
  /\ UNCHANGED <<logVars, offset, handled, late, cur, batch, faults>>

\* The visible events past the watermark, and a batch of them: the first
\* BatchSize in recorded order.
\* Defect for a mutation run: the tuple comparison is off by one.
PendingOffByOne(d) == {p \in committed : p > after[d] + 1}

Pending(d) == {p \in committed : p > after[d]}

\* Defect for a mutation run: the select has lost its ORDER BY.
IsBatchUnordered(B, pending) ==
  /\ B \subseteq pending
  /\ Cardinality(B) <= BatchSize
  /\ pending # B => Cardinality(B) = BatchSize

IsBatch(B, pending) ==
  /\ B \subseteq pending
  /\ \A p \in B, q \in pending \ B : p < q
  /\ Cardinality(B) <= BatchSize
  /\ pending # B => Cardinality(B) = BatchSize

SelectBatch(d) ==
  /\ pc[d] = "select"
  /\ Pending(d) # {}
  /\ \E B \in SUBSET Pending(d) :
       /\ IsBatch(B, Pending(d))
       /\ batch' = [batch EXCEPT ![d] = B]
  /\ pc' = [pc EXCEPT ![d] = "handle"]
  /\ after' = [after EXCEPT ![d] = 0]
  /\ UNCHANGED <<logVars, offset, handled, late, cur, faults>>

\* An empty batch ends drain: on to the next handler, or the tick is over.
DrainDone(d) ==
  /\ pc[d] = "select"
  /\ Pending(d) = {}
  /\ IF cur[d] < NumHandlers
       THEN /\ cur' = [cur EXCEPT ![d] = @ + 1]
            /\ pc' = [pc EXCEPT ![d] = "read"]
       ELSE /\ cur' = [cur EXCEPT ![d] = 1]
            /\ pc' = [pc EXCEPT ![d] = "idle"]
  /\ after' = [after EXCEPT ![d] = 0]
  /\ UNCHANGED <<logVars, offset, handled, late, batch, faults>>

\* Defect for a mutation run: the rows of a batch are taken in any order.
IsNextInAnyOrder(d, p) == p \in batch[d]

IsNext(d, p) == p \in batch[d] /\ \A q \in batch[d] : p <= q

\* handler.handle(row) returns.
Handle(d) ==
  /\ pc[d] = "handle"
  /\ \E p \in batch[d] :
       /\ IsNext(d, p)
       /\ <<cur[d], p>> \notin Poison
       /\ handled' = [handled EXCEPT ![cur[d]] = @ \cup {p}]
  /\ pc' = [pc EXCEPT ![d] = "advance"]
  /\ UNCHANGED <<logVars, offset, late, cur, after, batch, faults>>

\* Upsert the watermark at this row, then the next row or the next batch.
Advance(d) ==
  /\ pc[d] = "advance"
  /\ \E p \in batch[d] :
       /\ IsNext(d, p)
       /\ offset' = [offset EXCEPT ![cur[d]] = p]
       /\ batch' = [batch EXCEPT ![d] = @ \ {p}]
       /\ pc' = [pc EXCEPT ![d] = IF batch[d] = {p} THEN "read" ELSE "handle"]
  /\ UNCHANGED <<logVars, handled, late, cur, after, faults>>

\* The tick is abandoned: the batch is forgotten and the durable state stays.
Abandon(d) ==
  /\ pc' = [pc EXCEPT ![d] = "idle"]
  /\ cur' = [cur EXCEPT ![d] = 1]
  /\ after' = [after EXCEPT ![d] = 0]
  /\ batch' = [batch EXCEPT ![d] = {}]
  /\ UNCHANGED <<logVars, offset, handled, late>>

\* The handler fails on this row every time: safeTick's catch ends the tick,
\* for this handler and for those registered after it.
HandlerPoisoned(d) ==
  /\ pc[d] = "handle"
  /\ \E p \in batch[d] : IsNext(d, p) /\ <<cur[d], p>> \in Poison
  /\ Abandon(d)
  /\ UNCHANGED faults

\* A transient error of any call of the tick, or the instance stops and is
\* restarted.
Fault(d) ==
  /\ pc[d] # "idle"
  /\ faults < MaxFaults
  /\ faults' = faults + 1
  /\ Abandon(d)

TickStep(d) ==
  \/ StartTick(d)
  \/ ReadOffset(d)
  \/ SelectBatch(d)
  \/ DrainDone(d)
  \/ Handle(d)
  \/ Advance(d)
  \/ HandlerPoisoned(d)

WriterStep(w) == WriterStamp(w) \/ WriterCommit(w) \/ WriterRollback(w)

Next ==
  \/ \E w \in Writers : WriterStep(w)
  \/ \E d \in Dispatchers : TickStep(d) \/ Fault(d)

Spec == Init /\ [][Next]_vars

\* The timer keeps firing on every instance, and an awaited call returns.
FairSpec == Spec /\ \A d \in Dispatchers : WF_vars(TickStep(d))

-----------------------------------------------------------------------------
(* Properties.                                                             *)

\* The durable watermark is never past work undone: every visible event at or
\* below it has been processed, unless it surfaced late.  It is what makes a
\* restart from consumer_offsets safe, whatever two instances and a crash
\* between handling and advancing do to the watermark, which may move back.
WatermarkSound ==
  \A h \in Handlers :
    \A p \in committed \ late[h] : p <= offset[h] => p \in handled[h]

\* The dispatchers together implement ordered at-least-once delivery: a handler
\* first processes an event after every earlier one it must see, and an event
\* is given up only when it surfaced behind one already visible.
Delivery == INSTANCE OrderedDelivery WITH
              Events <- Positions, Consumers <- Handlers,
              visible <- committed, excused <- late, received <- handled

ImplementsOrderedDelivery == Delivery!Spec

\* h never reaches p: h itself, or a handler drained before it, fails on an
\* event that comes first.
Obstructed(h, p) ==
  \E bad \in Poison : \/ bad[1] = h /\ bad[2] <= p
                      \/ bad[1] < h

\* Every event that did not surface late is processed in the end by each
\* handler, across crashes, transient errors and a second instance; a handler
\* that fails on one event for ever holds up only itself and those behind it.
EventuallyHandled ==
  \A h \in Handlers, p \in Positions :
    ~Obstructed(h, p) =>
      (p \in committed \ late[h] ~> p \in handled[h])
=============================================================================
