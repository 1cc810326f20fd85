----------------------------- MODULE OutboxRelay -----------------------------
(***************************************************************************)
(* The transactional outbox (outbox/outbox-relay.service.ts).  A relay in  *)
(* every API instance selects the unpublished events by recordedAt, sends  *)
(* the batch to the topic, and stamps published_at.  The topic keeps order *)
(* within a key, and an event's key is its shipment.  The select has no    *)
(* second sort key, so events of the same millisecond come in any order.   *)
(*                                                                         *)
(* A crash or a broker error between the steps leaves events sent and not  *)
(* stamped, and two relays may hold the same batch, so consumers see       *)
(* duplicates and drop them by eventId (`deduped').  MaxFaults bounds the  *)
(* crashes and failed sends.                                               *)
(***************************************************************************)
EXTENDS EventLog, SequencesExt

CONSTANTS
  Relays,     \* API instances with a broker configured
  BatchSize,  \* OUTBOX_BATCH_SIZE
  Keys,       \* shipments
  KeyOf,      \* KeyOf[p]: the shipment event p belongs to
  TimeOf,     \* TimeOf[p]: the millisecond in which it was recorded
  MaxFaults   \* bound: crashes and failed sends

ASSUME RelayAssumption ==
  /\ BatchSize \in Nat \ {0}
  /\ KeyOf \in [Positions -> Keys]
  /\ TimeOf \in [Positions -> Nat]
  /\ \A p, q \in Positions : p < q => TimeOf[p] <= TimeOf[q]
  /\ MaxFaults \in Nat

VARIABLES
  published,  \* rows whose published_at is set
  topic,      \* topic[k]: what the partition of key k has received
  late,       \* history: events that surfaced when a later one of the same
              \* key had been selected or sent
  pc,         \* where the tick of each relay stands
  batch,      \* the rows it selected, in the order of the result
  faults

relayVars == <<published, topic, late, pc, batch, faults>>
vars == <<clock, open, committed, published, topic, late, pc, batch, faults>>

TypeOK ==
  /\ LogTypeOK
  /\ published \in SUBSET Positions
  /\ topic \in [Keys -> Seq(Positions)]
  /\ late \in SUBSET Positions
  /\ pc \in [Relays -> {"idle", "publish", "mark"}]
  /\ batch \in [Relays -> Seq(Positions)]
  /\ faults \in 0 .. MaxFaults

Init ==
  /\ LogInit
  /\ published = {}
  /\ topic = [k \in Keys |-> <<>>]
  /\ late = {}
  /\ pc = [r \in Relays |-> "idle"]
  /\ batch = [r \in Relays |-> <<>>]
  /\ faults = 0

Sent(k) == ToSet(topic[k])
SentAll == UNION {Sent(k) : k \in Keys}
InFlight == UNION {ToSet(batch[r]) : r \in Relays}
Before(p, q) == TimeOf[p] < TimeOf[q]

-----------------------------------------------------------------------------
(* Writers.                                                                *)

WriterStamp(w) ==
  /\ Stamp(w)
  /\ UNCHANGED relayVars

WriterCommit(w) ==
  /\ Commit(w)
  /\ late' = late \cup {p \in open[w] :
                          \E q \in SentAll \cup InFlight :
                            Before(p, q) /\ KeyOf[q] = KeyOf[p]}
  /\ UNCHANGED <<published, topic, pc, batch, faults>>

WriterRollback(w) ==
  /\ Rollback(w)
  /\ UNCHANGED relayVars

-----------------------------------------------------------------------------
(* The tick of relay r.                                                    *)

\* Defect for a mutation run: a watermark instead of a stamp on each row.
UnpublishedPastWatermark == {p \in committed : \A q \in published : p > q}

Unpublished == committed \ published

\* Results of the select's length, whatever their order.
Results ==
  LET n == Min({BatchSize, Cardinality(Unpublished)}) IN
    Injection(1 .. n, Unpublished)

\* Defect for a mutation run: the select has lost its ORDER BY.
IsBatchUnordered(rows) == rows \in Results

\* Sorted by recordedAt, and nothing left out was recorded earlier.
IsBatch(rows) ==
  /\ rows \in Results
  /\ \A i, j \in DOMAIN rows : i < j => ~Before(rows[j], rows[i])
  /\ \A i \in DOMAIN rows, q \in Unpublished \ ToSet(rows) : ~Before(q, rows[i])

\* Nothing to ship: the tick ends at once.
SelectNothing(r) ==
  /\ pc[r] = "idle"
  /\ Unpublished = {}
  /\ UNCHANGED vars

\* The first BatchSize unpublished rows by recordedAt.
Select(r) ==
  /\ pc[r] = "idle"
  /\ Unpublished # {}
  /\ \E rows \in Results :
       /\ IsBatch(rows)
       /\ batch' = [batch EXCEPT ![r] = rows]
  /\ pc' = [pc EXCEPT ![r] = "publish"]
  /\ UNCHANGED <<logVars, published, topic, late, faults>>

\* A set of places in a sequence, from the first to the last.
InOrder(places) ==
  CHOOSE f \in [1 .. Cardinality(places) -> places] :
    /\ \A i, j \in DOMAIN f : i < j => f[i] < f[j]
    /\ places = {f[i] : i \in DOMAIN f}

\* The batch as the producer splits it: each key's rows, in batch order.
RowsOf(rows, k) ==
  LET at == InOrder({i \in DOMAIN rows : KeyOf[rows[i]] = k})
  IN [n \in DOMAIN at |-> rows[at[n]]]

\* The broker takes the whole batch and acknowledges it.
Publish(r) ==
  /\ pc[r] = "publish"
  /\ topic' = [k \in Keys |-> topic[k] \o RowsOf(batch[r], k)]
  /\ pc' = [pc EXCEPT ![r] = "mark"]
  /\ UNCHANGED <<logVars, published, late, batch, faults>>

\* Stamp published_at on the rows of the batch.
Mark(r) ==
  /\ pc[r] = "mark"
  /\ published' = published \cup ToSet(batch[r])
  /\ batch' = [batch EXCEPT ![r] = <<>>]
  /\ pc' = [pc EXCEPT ![r] = "idle"]
  /\ UNCHANGED <<logVars, topic, late, faults>>

\* The tick ends early and the batch is forgotten.
GiveUp(r) ==
  /\ faults < MaxFaults
  /\ faults' = faults + 1
  /\ pc' = [pc EXCEPT ![r] = "idle"]
  /\ batch' = [batch EXCEPT ![r] = <<>>]
  /\ UNCHANGED <<logVars, published, late>>

\* Defect for a mutation run: the error of the send is swallowed.
PublishFailsSilently(r) ==
  /\ pc[r] = "publish"
  /\ faults < MaxFaults
  /\ faults' = faults + 1
  /\ pc' = [pc EXCEPT ![r] = "mark"]
  /\ UNCHANGED <<logVars, published, topic, late, batch>>

\* The send fails: some partitions may have taken their rows.
PublishFails(r) ==
  /\ pc[r] = "publish"
  /\ \E K \in SUBSET Keys :
       topic' = [k \in Keys |->
                   IF k \in K THEN topic[k] \o RowsOf(batch[r], k) ELSE topic[k]]
  /\ GiveUp(r)

\* The instance stops, or the stamping update fails, and the next tick starts over.
Crash(r) ==
  /\ pc[r] # "idle"
  /\ GiveUp(r)
  /\ UNCHANGED topic

TickStep(r) == SelectNothing(r) \/ Select(r) \/ Publish(r) \/ Mark(r)

Next ==
  \/ \E w \in Writers : WriterStamp(w) \/ WriterCommit(w) \/ WriterRollback(w)
  \/ \E r \in Relays : TickStep(r) \/ PublishFails(r) \/ Crash(r)

Spec == Init /\ [][Next]_vars

\* The timer keeps firing, and an awaited call returns.
FairSpec == Spec /\ \A r \in Relays : WF_vars(TickStep(r))

-----------------------------------------------------------------------------
(* Properties.                                                             *)

\* An event's first appearance in its partition, which is where a consumer that
\* drops duplicates by eventId sees it.
FirstSeen(k, p) ==
  CHOOSE i \in DOMAIN topic[k] :
    topic[k][i] = p /\ \A j \in 1 .. i - 1 : topic[k][j] # p

\* The outbox pattern's two halves: a row is stamped only when the broker holds
\* it, so nothing stamped is lost, and the broker never holds an event whose
\* transaction did not commit.
StampedIsSent == published \subseteq SentAll /\ SentAll \subseteq committed

\* A consumer that drops duplicates sees the events of a shipment in recorded
\* order, except those that committed behind a later one already taken up,
\* whatever duplicates two relays and failed sends put in between.
DedupedInOrder ==
  \A k \in Keys : \A p, q \in Sent(k) :
    Before(p, q) /\ p \notin late => FirstSeen(k, p) < FirstSeen(k, q)

\* Whatever commits reaches the broker in the end, the late ones too: the relay
\* looks for unstamped rows and keeps no watermark.
EventuallySent == []<>(committed \subseteq SentAll)
=============================================================================
