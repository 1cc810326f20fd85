---- MODULE IngestProofs ----
(***************************************************************************)
(* What the proof system checks of the outbox relay and of the ingest of   *)
(* tracking emissions, for every number of relays, feeds and handlers.     *)
(*                                                                         *)
(* The relay.  Three invariants, each resting on the one before: TypeOK;   *)
(* RelayInv, that rows are committed wherever they are and that a tick     *)
(* about to stamp has sent what it stamps; and OrderInv, that a partition  *)
(* which kept the first copy of every row has its rows in the order of the *)
(* log.  The proofs need to know what RowsOf takes out of a batch, and so  *)
(* that a finite set of numbers can be listed in order.                    *)
(*                                                                         *)
(* The ingest.  IngestInv says of every call at work how far through its   *)
(* feed it is, and that the emissions behind it are settled: recorded,     *)
(* unmatched, or of a pair that two emissions of the feeds share.          *)
(***************************************************************************)
EXTENDS OutboxRelay, Tracking, Sums, SequenceTheorems, TLAPS

\* A list of the members of A, the smaller first.
Lists(f, A) ==
  /\ f \in [1 .. Cardinality(A) -> A]
  /\ \A i, j \in DOMAIN f : i < j => f[i] < f[j]
  /\ A = {f[i] : i \in DOMAIN f}

\* Every finite set of numbers can be listed: a least bound below which one could
\* not be would leave out its own last member.
LEMMA ListExists ==
  ASSUME NEW n \in Nat, NEW A \in SUBSET (1 .. n)
  PROVE  \E f : Lists(f, A)
<1> DEFINE Bad == {b \in Nat : \E B \in SUBSET (1 .. b) : ~ \E f : Lists(f, B)}
<1>1. SUFFICES ASSUME Bad # {} PROVE FALSE
  OBVIOUS
<1>2. PICK b \in Bad : \A c \in Bad : b <= c
  <2> HIDE DEF Bad
  <2>1. Bad \in SUBSET Nat  BY DEF Bad
  <2> QED BY <1>1, <2>1, LeastNumber
<1>3. PICK B \in SUBSET (1 .. b) : ~ \E f : Lists(f, B)
  OBVIOUS
<1>4. b # 0
  <2> SUFFICES ASSUME b = 0 PROVE FALSE  OBVIOUS
  <2>1. B = {}  OBVIOUS
  <2>2. Lists([i \in 1 .. 0 |-> i], {})  
    <3>1. Cardinality({}) = 0  BY FS_EmptySet
    <3> QED BY <3>1 DEF Lists
  <2> QED BY <1>3, <2>1, <2>2
<1> DEFINE C == B \ {b}
<1>5. b \in Nat \ {0}
  BY <1>4
<1>6. PICK g : Lists(g, C)
  <2>1. b - 1 \in Nat /\ C \in SUBSET (1 .. b - 1)  BY <1>5
  <2>2. b - 1 \notin Bad
    <3> HIDE DEF Bad
    <3> QED BY <1>2, <1>5
  <2> QED BY <2>1, <2>2
<1>7. b \in B
  <2> SUFFICES ASSUME b \notin B PROVE FALSE  OBVIOUS
  <2> QED BY <1>3, <1>6
<1>8. Cardinality(C) \in Nat /\ Cardinality(B) = Cardinality(C) + 1
  <2>1. IsFiniteSet(B)
    <3>1. IsFiniteSet(1 .. b)  BY <1>5, FS_Interval
    <3> QED BY <3>1, FS_Subset
  <2>2. Cardinality(B) \in Nat  BY <2>1, FS_CardinalityType
  <2>3. IsFiniteSet(C) /\ Cardinality(C) = Cardinality(B) - 1  BY <2>1, <1>7, FS_RemoveElement
  <2> QED BY <2>2, <2>3, FS_CardinalityType
<1> DEFINE h == [i \in 1 .. Cardinality(B) |-> IF i = Cardinality(B) THEN b ELSE g[i]]
<1>9. Lists(h, B)
  <2> HIDE DEF Bad
  <2> DEFINE c == Cardinality(C)
  <2>a. c \in Nat /\ Cardinality(B) = c + 1  BY <1>8
  <2>b. h = [i \in 1 .. c + 1 |-> IF i = c + 1 THEN b ELSE g[i]]  BY <2>a
  <2>c. g \in [1 .. c -> C] /\ \A i, j \in 1 .. c : i < j => g[i] < g[j]  BY <1>6 DEF Lists
  <2>1. h \in [1 .. c + 1 -> B]
    <3> HIDE DEF h, c
    <3> QED BY <2>a, <2>b, <2>c, <1>7
  <2>2. ASSUME NEW i \in 1 .. c + 1, NEW j \in 1 .. c + 1, i < j
        PROVE  h[i] < h[j]
    <3> HIDE DEF h, c
    <3>1. i \in 1 .. c /\ h[i] = g[i] /\ g[i] \in C
      BY <2>2, <2>a, <2>b, <2>c
    <3>2. CASE j = c + 1
      <4>1. h[j] = b  BY <3>2, <2>a, <2>b
      <4>2. g[i] \in 1 .. b /\ g[i] # b  BY <3>1
      <4> QED BY <3>1, <4>1, <4>2, <1>5
    <3>3. CASE j # c + 1
      <4>1. j \in 1 .. c /\ h[j] = g[j]  BY <3>3, <2>a, <2>b
      <4> QED BY <4>1, <3>1, <2>2, <2>c
    <3> QED BY <3>2, <3>3
  <2>3. B = {h[i] : i \in DOMAIN h}
    <3>1. \A x \in C : \E i \in 1 .. Cardinality(C) : g[i] = x
      BY <1>6 DEF Lists
    <3>2. \A i \in 1 .. Cardinality(C) : i \in 1 .. Cardinality(B) /\ h[i] = g[i]
      BY <1>8
    <3>3. h[Cardinality(B)] = b /\ Cardinality(B) \in 1 .. Cardinality(B)
      BY <1>8
    <3>4. \A x \in B : \E i \in 1 .. Cardinality(B) : h[i] = x
      BY <3>1, <3>2, <3>3
    <3> QED BY <2>1, <3>4
  <2> QED BY <2>1, <2>2, <2>3 DEF Lists
<1> QED BY <1>3, <1>9

-----------------------------------------------------------------------------
\* InOrder is such a list.
LEMMA InOrderLists ==
  ASSUME NEW n \in Nat, NEW A \in SUBSET (1 .. n)
  PROVE  Lists(InOrder(A), A)
<1>1. PICK f : Lists(f, A)
  BY ListExists
<1>2. \E g \in [1 .. Cardinality(A) -> A] :
        /\ \A i, j \in DOMAIN g : i < j => g[i] < g[j]
        /\ A = {g[i] : i \in DOMAIN g}
  BY <1>1 DEF Lists
<1> QED BY <1>2, Zenon DEF Lists, InOrder

\* What a partition takes of a batch: rows of its key, all of them, and each
\* behind those that were before it.
LEMMA RowsOfKey ==
  ASSUME NEW rows \in Seq(Positions), NEW k
  PROVE  /\ RowsOf(rows, k) \in Seq(Positions)
         /\ ToSet(RowsOf(rows, k)) = {p \in ToSet(rows) : KeyOf[p] = k}
         /\ \A j \in DOMAIN RowsOf(rows, k) : \E n \in DOMAIN rows :
              /\ rows[n] = RowsOf(rows, k)[j]
              /\ \A m \in 1 .. n - 1 : KeyOf[rows[m]] = k =>
                   \E i \in 1 .. j - 1 : RowsOf(rows, k)[i] = rows[m]
<1> DEFINE A == {i \in DOMAIN rows : KeyOf[rows[i]] = k}
           at == InOrder(A)
           R == [n \in DOMAIN at |-> rows[at[n]]]
<1>1. Len(rows) \in Nat /\ DOMAIN rows = 1 .. Len(rows) /\ rows \in [1 .. Len(rows) -> Positions]
  OBVIOUS
<1>2. A \in SUBSET (1 .. Len(rows))
  BY <1>1
<1>3. Lists(at, A)
  BY <1>1, <1>2, InOrderLists
<1>4. IsFiniteSet(A) /\ Cardinality(A) \in Nat
  <2>1. IsFiniteSet(1 .. Len(rows))  BY <1>1, FS_Interval
  <2> QED BY <2>1, <1>2, FS_Subset, FS_CardinalityType
<1>5. RowsOf(rows, k) = R
  BY DEF RowsOf
<1> DEFINE c == Cardinality(A)
<1>6. c \in Nat /\ at \in [1 .. c -> A] /\ \A x \in A : \E i \in 1 .. c : at[i] = x
  BY <1>3, <1>4 DEF Lists
<1>7. \A i, j \in 1 .. c : i < j => at[i] < at[j]
  BY <1>3 DEF Lists
<1>8. R = [n \in 1 .. c |-> rows[at[n]]]
  BY <1>6
<1>9. \A i \in 1 .. c : at[i] \in 1 .. Len(rows) /\ rows[at[i]] \in Positions /\ KeyOf[rows[at[i]]] = k
  BY <1>1, <1>6
<1> HIDE DEF c, at, R
<1>10. R \in Seq(Positions) /\ DOMAIN R = 1 .. c
  BY <1>6, <1>8, <1>9
<1>11. ToSet(R) = {p \in ToSet(rows) : KeyOf[p] = k}
  <2>1. \A p \in ToSet(rows) : KeyOf[p] = k => \E i \in 1 .. c : rows[at[i]] = p
    BY <1>1, <1>6 DEF ToSet
  <2>2. \A i \in 1 .. c : R[i] = rows[at[i]] /\ R[i] \in ToSet(rows) /\ KeyOf[R[i]] = k
    BY <1>1, <1>8, <1>9 DEF ToSet
  <2> QED BY <2>1, <2>2, <1>10 DEF ToSet
<1>12. ASSUME NEW j \in 1 .. c
       PROVE  \E n \in DOMAIN rows :
                /\ rows[n] = R[j]
                /\ \A m \in 1 .. n - 1 : KeyOf[rows[m]] = k => \E i \in 1 .. j - 1 : R[i] = rows[m]
  <2>1. at[j] \in DOMAIN rows /\ rows[at[j]] = R[j] /\ at[j] \in 1 .. Len(rows)
    BY <1>1, <1>8, <1>9
  <2>2. ASSUME NEW m \in 1 .. at[j] - 1, KeyOf[rows[m]] = k
        PROVE  \E i \in 1 .. j - 1 : R[i] = rows[m]
    <3>1. m \in A /\ m < at[j]
      BY <2>1, <2>2, <1>1
    <3>2. PICK i \in 1 .. c : at[i] = m
      BY <3>1, <1>6
    <3>3. i < j
      <4>1. CASE j < i  BY <4>1, <3>1, <3>2, <1>7, <2>1
      <4>2. CASE j = i  BY <4>2, <3>1, <3>2, <2>1
      <4> QED BY <4>1, <4>2, <1>6
    <3> QED BY <3>2, <3>3, <1>6, <1>8
  <2> QED BY <2>1, <2>2
<1> QED BY <1>5, <1>10, <1>11, <1>12

-----------------------------------------------------------------------------
(* The outbox relay.                                                        *)

\* The log has room for finitely many events.
LEMMA PositionsFinite == IsFiniteSet(Positions) /\ Positions \subseteq Nat
BY EventLogAssumption, FS_Interval DEF Positions

\* What was written, committed or is still to publish is a position of the log.
LEMMA OnlyPositions ==
  ASSUME TypeOK
  PROVE  1 .. clock \subseteq Positions /\ committed \subseteq Positions /\ Unpublished \subseteq Positions
BY EventLogAssumption DEF TypeOK, LogTypeOK, Positions, Unpublished

\* A select returns rows that are not published yet, and repeats none.
LEMMA ResultsAreRows ==
  ASSUME TypeOK, NEW rows \in Results
  PROVE  rows \in Seq(Positions) /\ ToSet(rows) \subseteq Unpublished
<1>1. IsFiniteSet(Unpublished)
  BY OnlyPositions, PositionsFinite, FS_Subset
<1>2. Cardinality(Unpublished) \in Nat
  BY <1>1, FS_CardinalityType
<1> DEFINE n == Min({BatchSize, Cardinality(Unpublished)})
<1>3. n \in Nat
  <2>1. \E x \in {BatchSize, Cardinality(Unpublished)} :
           \A y \in {BatchSize, Cardinality(Unpublished)} : x <= y
    BY <1>2, RelayAssumption
  <2>2. n \in {BatchSize, Cardinality(Unpublished)}
    BY <2>1, Zenon DEF Min
  <2> QED BY <2>2, <1>2, RelayAssumption
<1>4. rows \in [1 .. n -> Unpublished]
  BY DEF Results, Injection
<1> HIDE DEF n
<1>5. rows \in Seq(Unpublished)
  BY <1>3, <1>4
<1> QED BY <1>4, <1>3, OnlyPositions DEF ToSet

\* A writer's step keeps the log well-typed.
LEMMA LogTypeStep ==
  ASSUME LogTypeOK, NEW w \in Writers, Stamp(w) \/ Commit(w) \/ Rollback(w)
  PROVE  LogTypeOK'
<1> USE EventLogAssumption DEF LogTypeOK
<1>1. CASE Stamp(w)     BY <1>1 DEF Stamp
<1>2. CASE Commit(w)    BY <1>2 DEF Commit
<1>3. CASE Rollback(w)  BY <1>3 DEF Rollback
<1> QED  BY <1>1, <1>2, <1>3

\* The relay starts well-typed,
LEMMA RelayInitType == Init => TypeOK
BY EventLogAssumption, RelayAssumption DEF Init, LogInit, TypeOK, LogTypeOK

\* and stays so, whatever is appended to a partition.
LEMMA RelayNextType == TypeOK /\ [Next]_vars => TypeOK'
<1> SUFFICES ASSUME TypeOK, [Next]_vars PROVE TypeOK'
  OBVIOUS
<1> USE DEF TypeOK
<1>1. ASSUME NEW w \in Writers, WriterStamp(w)  PROVE TypeOK'
  BY <1>1, LogTypeStep DEF WriterStamp, relayVars
<1>2. ASSUME NEW w \in Writers, WriterCommit(w)  PROVE TypeOK'
  <2>1. open[w] \subseteq Positions
    BY OnlyPositions DEF LogTypeOK
  <2>2. late' \subseteq Positions
    BY <1>2, <2>1 DEF WriterCommit
  <2> QED BY <1>2, <2>2, LogTypeStep DEF WriterCommit
<1>3. ASSUME NEW w \in Writers, WriterRollback(w)  PROVE TypeOK'
  BY <1>3, LogTypeStep DEF WriterRollback, relayVars
<1>4. ASSUME NEW r \in Relays, SelectNothing(r)  PROVE TypeOK'
  BY <1>4 DEF SelectNothing, vars, LogTypeOK
<1>5. ASSUME NEW r \in Relays, Select(r)  PROVE TypeOK'
  <2>1. batch' \in [Relays -> Seq(Positions)]
    BY <1>5, ResultsAreRows DEF Select
  <2> QED BY <1>5, <2>1 DEF Select, logVars, LogTypeOK
<1>6. ASSUME NEW r \in Relays, Publish(r)  PROVE TypeOK'
  <2>1. topic' \in [Keys -> Seq(Positions)]
    <3>1. \A k \in Keys : topic[k] \o RowsOf(batch[r], k) \in Seq(Positions)
      BY RowsOfKey
    <3> QED BY <3>1, <1>6 DEF Publish
  <2> QED BY <1>6, <2>1 DEF Publish, logVars, LogTypeOK
<1>7. ASSUME NEW r \in Relays, Mark(r)  PROVE TypeOK'
  <2>1. ToSet(batch[r]) \subseteq Positions
    BY DEF ToSet
  <2> QED BY <1>7, <2>1 DEF Mark, logVars, LogTypeOK
<1>8. ASSUME NEW r \in Relays, PublishFails(r)  PROVE TypeOK'
  <2>1. topic' \in [Keys -> Seq(Positions)]
    <3>1. \A k \in Keys : topic[k] \o RowsOf(batch[r], k) \in Seq(Positions)
      BY RowsOfKey
    <3> QED BY <3>1, <1>8 DEF PublishFails
  <2> QED BY <1>8, <2>1, RelayAssumption DEF PublishFails, GiveUp, logVars, LogTypeOK
<1>9. ASSUME NEW r \in Relays, Crash(r)  PROVE TypeOK'
  BY <1>9, RelayAssumption DEF Crash, GiveUp, logVars, LogTypeOK
<1>10. CASE UNCHANGED vars
  BY <1>10 DEF vars, LogTypeOK
<1> QED BY <1>1, <1>2, <1>3, <1>4, <1>5, <1>6, <1>7, <1>8, <1>9, <1>10 DEF Next, TickStep

\* The relay's variables keep their types: a batch is rows of the log, a partition a
\* sequence of them, and the times of commits and the faults stay in their range.
THEOREM RelayTypeCorrect == Spec => []TypeOK
BY RelayInitType, RelayNextType, PTL DEF Spec

-----------------------------------------------------------------------------
\* What holds of the rows wherever they are: a partition has rows of its own key
\* only, what is selected or sent has committed, and what a tick is about to
\* stamp was sent.
SentSound ==
  /\ published \subseteq SentAll
  /\ SentAll \subseteq committed
  /\ \A k \in Keys : \A p \in Sent(k) : KeyOf[p] = k

BatchSound(r) ==
  /\ ToSet(batch[r]) \subseteq committed
  /\ pc[r] = "mark" => ToSet(batch[r]) \subseteq SentAll

RelayInv == TypeOK /\ SentSound /\ \A r \in Relays : BatchSound(r)

\* The partitions take rows of a batch, or of some of its keys, and nothing else.
Sends(r, K) ==
  topic' = [k \in Keys |-> IF k \in K THEN topic[k] \o RowsOf(batch[r], k) ELSE topic[k]]

\* A concatenation has the members of both sequences.
LEMMA ConcatMembers ==
  ASSUME NEW S, NEW s \in Seq(S), NEW t \in Seq(S)
  PROVE  ToSet(s \o t) = ToSet(s) \cup ToSet(t)
<1>1. Len(s) \in Nat /\ Len(t) \in Nat /\ DOMAIN s = 1 .. Len(s) /\ DOMAIN t = 1 .. Len(t)
      /\ DOMAIN (s \o t) = 1 .. Len(s) + Len(t)
  OBVIOUS
<1>2. \A i \in 1 .. Len(s) : i \in DOMAIN (s \o t) /\ (s \o t)[i] = s[i]
  BY <1>1
<1>3. \A i \in 1 .. Len(t) : Len(s) + i \in DOMAIN (s \o t) /\ (s \o t)[Len(s) + i] = t[i]
  BY <1>1
<1>4. ToSet(s) \cup ToSet(t) \subseteq ToSet(s \o t)
  BY <1>1, <1>2, <1>3 DEF ToSet
<1>5. ASSUME NEW i \in DOMAIN (s \o t) PROVE (s \o t)[i] \in ToSet(s) \cup ToSet(t)
  <2>1. CASE i <= Len(s)
    <3>1. i \in DOMAIN s  BY <2>1, <1>1
    <3> QED BY <3>1, <1>1, <1>2 DEF ToSet
  <2>2. CASE ~(i <= Len(s))
    <3>1. i - Len(s) \in DOMAIN t /\ Len(s) + (i - Len(s)) = i  BY <2>2, <1>1
    <3>2. (s \o t)[i] = t[i - Len(s)]  BY <3>1, <1>1, <1>3
    <3> QED BY <3>1, <3>2 DEF ToSet
  <2> QED BY <2>1, <2>2
<1>6. ToSet(s \o t) \subseteq ToSet(s) \cup ToSet(t)
  BY <1>5 DEF ToSet
<1> QED BY <1>4, <1>6

\* A send adds to a partition the rows of its key, and to the others nothing.
LEMMA SentStep ==
  ASSUME TypeOK, NEW r \in Relays, NEW K \in SUBSET Keys, Sends(r, K)
  PROVE  /\ \A k \in Keys : k \in K =>
              Sent(k)' = Sent(k) \cup {p \in ToSet(batch[r]) : KeyOf[p] = k}
         /\ \A k \in Keys : k \notin K => Sent(k)' = Sent(k)
<1>1. ASSUME NEW k \in K
      PROVE  Sent(k)' = Sent(k) \cup {p \in ToSet(batch[r]) : KeyOf[p] = k}
  <2> DEFINE R == RowsOf(batch[r], k)
  <2>1. topic[k] \in Seq(Positions) /\ batch[r] \in Seq(Positions)
    BY DEF TypeOK
  <2>2. R \in Seq(Positions) /\ ToSet(R) = {p \in ToSet(batch[r]) : KeyOf[p] = k}
    BY <2>1, RowsOfKey
  <2>3. topic'[k] = topic[k] \o R
    BY DEF Sends
  <2> HIDE DEF R
  <2>4. ToSet(topic[k] \o R) = ToSet(topic[k]) \cup ToSet(R)
    BY <2>1, <2>2, ConcatMembers
  <2> QED BY <2>2, <2>3, <2>4 DEF Sent
<1>2. ASSUME NEW k \in Keys, k \notin K PROVE Sent(k)' = Sent(k)
  BY <1>2 DEF Sends, Sent
<1> QED BY <1>1, <1>2

\* A send, of all keys or of some before the broker failed, sends committed rows only.
LEMMA SendsSafely ==
  ASSUME RelayInv, NEW r \in Relays, NEW K \in SUBSET Keys, Sends(r, K),
         committed' = committed, published' = published
  PROVE  SentSound' /\ SentAll \subseteq SentAll' /\ (K = Keys => ToSet(batch[r]) \subseteq SentAll')
<1>1. SentAll \subseteq SentAll'
  BY SentStep DEF RelayInv, SentAll
<1>2. SentAll' \subseteq SentAll \cup ToSet(batch[r])
  BY SentStep DEF RelayInv, SentAll
<1>3. ASSUME K = Keys PROVE ToSet(batch[r]) \subseteq SentAll'
  <2>1. \A p \in ToSet(batch[r]) : KeyOf[p] \in Keys
    BY RelayAssumption DEF RelayInv, TypeOK, ToSet
  <2> QED BY <1>3, <2>1, SentStep DEF RelayInv, SentAll
<1>4. \A k \in Keys : \A p \in Sent(k)' : KeyOf[p] = k
  BY SentStep DEF RelayInv, SentSound
<1> QED BY <1>1, <1>2, <1>3, <1>4 DEF RelayInv, SentSound, BatchSound

\* Nothing is sent or selected at first,
LEMMA RelayInitInv == Init => RelayInv
<1> SUFFICES ASSUME Init PROVE SentSound /\ \A r \in Relays : BatchSound(r)
  BY RelayInitType DEF RelayInv
<1>1. \A k \in Keys : Sent(k) = {}
  BY DEF Init, Sent, ToSet
<1>2. \A r \in Relays : ToSet(batch[r]) = {}
  BY DEF Init, ToSet
<1> QED BY <1>1, <1>2 DEF Init, LogInit, SentSound, SentAll, BatchSound

\* and no step of a writer or of a tick sends what has not committed or stamps what
\* was not sent.
LEMMA RelayNextInv == RelayInv /\ [Next]_vars => RelayInv'
<1> SUFFICES ASSUME RelayInv, [Next]_vars PROVE SentSound' /\ \A r \in Relays : BatchSound(r)'
  BY RelayNextType DEF RelayInv
<1>0. TypeOK /\ SentSound /\ \A r \in Relays : BatchSound(r)
  BY DEF RelayInv
<1>1. ASSUME topic' = topic, published' = published, batch' = batch, pc' = pc,
             committed \subseteq committed'
      PROVE  SentSound' /\ \A r \in Relays : BatchSound(r)'
  BY <1>0, <1>1 DEF SentSound, SentAll, Sent, BatchSound
<1>2. ASSUME NEW w \in Writers, WriterStamp(w) \/ WriterCommit(w) \/ WriterRollback(w)
      PROVE  SentSound' /\ \A r \in Relays : BatchSound(r)'
  BY <1>1, <1>2 DEF WriterStamp, Stamp, WriterCommit, Commit, WriterRollback, Rollback, relayVars
<1>3. ASSUME NEW r \in Relays, SelectNothing(r)
      PROVE  SentSound' /\ \A q \in Relays : BatchSound(q)'
  BY <1>1, <1>3 DEF SelectNothing, vars
<1>4. ASSUME NEW r \in Relays, Select(r)
      PROVE  SentSound' /\ \A q \in Relays : BatchSound(q)'
  <2>1. SentSound' /\ SentAll' = SentAll
    BY <1>0, <1>4 DEF Select, SentSound, SentAll, Sent, logVars
  <2>2. ToSet(batch'[r]) \subseteq committed /\ pc'[r] # "mark"
    BY <1>0, <1>4, ResultsAreRows DEF Select, TypeOK, Unpublished
  <2>3. \A q \in Relays \ {r} : batch'[q] = batch[q] /\ pc'[q] = pc[q]
    BY <1>0, <1>4 DEF Select, TypeOK
  <2> QED BY <1>0, <1>4, <2>1, <2>2, <2>3 DEF BatchSound, Select, logVars
<1>5. ASSUME NEW r \in Relays, Publish(r)
      PROVE  SentSound' /\ \A q \in Relays : BatchSound(q)'
  <2>1. Sends(r, Keys)
    BY <1>5 DEF Publish, Sends
  <2>2. SentSound' /\ SentAll \subseteq SentAll' /\ ToSet(batch[r]) \subseteq SentAll'
    BY <2>1, <1>5, SendsSafely DEF Publish, logVars
  <2>3. \A q \in Relays \ {r} : pc'[q] = pc[q]
    BY <1>0, <1>5 DEF Publish, TypeOK
  <2> QED BY <1>0, <1>5, <2>2, <2>3 DEF BatchSound, Publish, logVars
<1>6. ASSUME NEW r \in Relays, Mark(r)
      PROVE  SentSound' /\ \A q \in Relays : BatchSound(q)'
  <2>1. SentSound' /\ SentAll' = SentAll
    BY <1>0, <1>6 DEF Mark, SentSound, SentAll, Sent, BatchSound, logVars
  <2>2. pc'[r] # "mark" /\ ToSet(batch'[r]) = {}
    BY <1>0, <1>6 DEF Mark, TypeOK, ToSet
  <2>3. \A q \in Relays \ {r} : batch'[q] = batch[q] /\ pc'[q] = pc[q]
    BY <1>0, <1>6 DEF Mark, TypeOK
  <2> QED BY <1>0, <1>6, <2>1, <2>2, <2>3 DEF BatchSound, Mark, logVars
<1>7. ASSUME NEW r \in Relays, PublishFails(r) \/ Crash(r)
      PROVE  SentSound' /\ \A q \in Relays : BatchSound(q)'
  <2>1. GiveUp(r)
    BY <1>7 DEF PublishFails, Crash
  <2>2. PICK K \in SUBSET Keys : Sends(r, K)
    <3>1. CASE PublishFails(r)  BY <3>1 DEF PublishFails, Sends
    <3>2. CASE Crash(r)
      <4>1. topic' = [k \in Keys |-> topic[k]]
        BY <3>2, <1>0 DEF Crash, TypeOK
      <4> QED BY <4>1, {} \in SUBSET Keys DEF Sends
    <3> QED BY <1>7, <3>1, <3>2
  <2>3. SentSound' /\ SentAll \subseteq SentAll'
    BY <2>1, <2>2, SendsSafely DEF GiveUp, logVars
  <2>4. pc'[r] # "mark" /\ ToSet(batch'[r]) = {}
    BY <1>0, <2>1 DEF GiveUp, TypeOK, ToSet
  <2>5. \A q \in Relays \ {r} : batch'[q] = batch[q] /\ pc'[q] = pc[q]
    BY <1>0, <2>1 DEF GiveUp, TypeOK
  <2> QED BY <1>0, <2>1, <2>3, <2>4, <2>5 DEF BatchSound, GiveUp, logVars
<1>8. CASE UNCHANGED vars
  BY <1>1, <1>8 DEF vars
<1> QED BY <1>2, <1>3, <1>4, <1>5, <1>6, <1>7, <1>8 DEF Next, TickStep

\* RelayInv is an invariant of the relay.
LEMMA RelayInvariant == Spec => []RelayInv
BY RelayInitInv, RelayNextInv, PTL DEF Spec

\* A row with a publication time has been handed to the broker, whatever number of
\* relays run at once and wherever a tick fails or crashes: safeTick stamps after it
\* publishes, and what it stamps is what it published.
THEOREM StampedWasSent == Spec => []StampedIsSent
<1>1. RelayInv => StampedIsSent
  BY DEF RelayInv, SentSound, StampedIsSent
<1> QED BY <1>1, RelayInvariant, PTL

-----------------------------------------------------------------------------
\* What the order of a partition rests on: behind an event nothing of the same key
\* is still to come that was recorded before it, but for what committed late.  In
\* a batch, what was recorded before a row has been sent or stands before it.
TopicInOrder(k) ==
  \A j \in DOMAIN topic[k] : \A p \in committed \ late :
    KeyOf[p] = k /\ Before(p, topic[k][j]) => \E i \in 1 .. j - 1 : topic[k][i] = p

BatchInOrder(r) ==
  \A n \in DOMAIN batch[r] : \A p \in committed \ late :
    KeyOf[p] = KeyOf[batch[r][n]] /\ Before(p, batch[r][n]) =>
      p \in Sent(KeyOf[p]) \/ \E m \in 1 .. n - 1 : batch[r][m] = p

OrderInv ==
  /\ RelayInv
  /\ \A k \in Keys : TopicInOrder(k)
  /\ \A r \in Relays : BatchInOrder(r)

\* Before anything is written nothing is out of order.
LEMMA OrderInitInv == Init => OrderInv
<1> SUFFICES ASSUME Init PROVE OrderInv
  OBVIOUS
<1>1. \A k \in Keys : DOMAIN topic[k] = {}
  BY DEF Init
<1>2. \A r \in Relays : DOMAIN batch[r] = {}
  BY DEF Init
<1> QED BY <1>1, <1>2, RelayInitInv DEF OrderInv, TopicInOrder, BatchInOrder

\* What commits on time has nothing of its key sent or selected behind it.
LEMMA CommitKeepsOrder ==
  ASSUME OrderInv, NEW w \in Writers, WriterCommit(w)
  PROVE  (\A k \in Keys : TopicInOrder(k)') /\ (\A r \in Relays : BatchInOrder(r)')
<1>1. \A p \in committed' \ late' :
         \/ p \in committed \ late
         \/ \A q \in SentAll \cup InFlight : ~(Before(p, q) /\ KeyOf[q] = KeyOf[p])
  BY DEF WriterCommit, Commit
<1>2. ASSUME NEW k \in Keys PROVE TopicInOrder(k)'
  <2> SUFFICES ASSUME NEW j \in DOMAIN topic[k], NEW p \in committed' \ late',
                      KeyOf[p] = k, Before(p, topic[k][j])
               PROVE  \E i \in 1 .. j - 1 : topic[k][i] = p
    BY DEF TopicInOrder, WriterCommit, Before
  <2>1. topic[k][j] \in SentAll /\ KeyOf[topic[k][j]] = k
    BY DEF OrderInv, RelayInv, SentSound, SentAll, Sent, ToSet
  <2> QED BY <1>1, <2>1 DEF OrderInv, TopicInOrder
<1>3. ASSUME NEW r \in Relays PROVE BatchInOrder(r)'
  <2> SUFFICES ASSUME NEW n \in DOMAIN batch[r], NEW p \in committed' \ late',
                      KeyOf[p] = KeyOf[batch[r][n]], Before(p, batch[r][n])
               PROVE  p \in Sent(KeyOf[p]) \/ \E m \in 1 .. n - 1 : batch[r][m] = p
    BY DEF BatchInOrder, WriterCommit, Before, Sent
  <2>1. batch[r][n] \in InFlight
    BY DEF InFlight, ToSet
  <2> QED BY <1>1, <2>1 DEF OrderInv, BatchInOrder
<1> QED BY <1>2, <1>3

\* A batch leaves out nothing of a key that was recorded before what it takes.
LEMMA SelectKeepsOrder ==
  ASSUME OrderInv, NEW r \in Relays, Select(r)
  PROVE  (\A k \in Keys : TopicInOrder(k)') /\ (\A q \in Relays : BatchInOrder(q)')
<1>0. TypeOK /\ SentSound /\ committed \subseteq Positions
  BY OnlyPositions DEF OrderInv, RelayInv
<1>1. UNCHANGED <<logVars, topic, late>>
  BY DEF Select
<1>2. \A k \in Keys : TopicInOrder(k)'
  BY <1>1 DEF OrderInv, TopicInOrder, Before, logVars
<1>3. \A q \in Relays \ {r} : batch'[q] = batch[q]
  BY <1>0 DEF Select, TypeOK
<1>4. \A q \in Relays \ {r} : BatchInOrder(q)'
  BY <1>1, <1>3 DEF OrderInv, BatchInOrder, Before, Sent, logVars
<1>5. BatchInOrder(r)'
  <2>1. PICK rows \in Results : IsBatch(rows) /\ batch'[r] = rows
    BY <1>0 DEF Select, TypeOK
  <2>2. rows \in Seq(Positions)
    BY <2>1, <1>0, ResultsAreRows
  <2> SUFFICES ASSUME NEW n \in DOMAIN rows, NEW p \in committed \ late,
                      KeyOf[p] = KeyOf[rows[n]], Before(p, rows[n])
               PROVE  p \in Sent(KeyOf[p]) \/ \E m \in 1 .. n - 1 : rows[m] = p
    BY <1>1, <2>1 DEF BatchInOrder, Before, Sent, logVars
  <2>3. CASE p \in published
    <3>1. PICK k \in Keys : p \in Sent(k)
      BY <2>3, <1>0 DEF SentSound, SentAll
    <3> QED BY <3>1, <1>0 DEF SentSound
  <2>4. CASE p \notin published
    <3>1. p \in ToSet(rows)
      BY <2>1, <2>4 DEF IsBatch, Unpublished
    <3>2. PICK m \in DOMAIN rows : rows[m] = p
      BY <3>1 DEF ToSet
    <3>3. ~(n < m)
      BY <2>1, <3>2 DEF IsBatch
    <3>4. n # m
      BY <3>2, <1>0, RelayAssumption DEF Before
    <3>5. m \in 1 .. n - 1
      BY <2>2, <3>3, <3>4
    <3> QED BY <3>2, <3>5
  <2> QED BY <2>3, <2>4
<1> QED BY <1>2, <1>4, <1>5

\* Sending keeps what was there first, and the batch stands behind it in its order.
LEMMA SendsInOrder ==
  ASSUME OrderInv, NEW r \in Relays, NEW K \in SUBSET Keys, Sends(r, K),
         committed' = committed, late' = late
  PROVE  /\ \A k \in Keys : TopicInOrder(k)'
         /\ \A k \in Keys : Sent(k) \subseteq Sent(k)'
<1>0. TypeOK /\ SentSound /\ BatchSound(r) /\ BatchInOrder(r) /\ \A k \in Keys : TopicInOrder(k)
  BY DEF OrderInv, RelayInv
<1>1. \A k \in Keys : Sent(k) \subseteq Sent(k)'
  BY <1>0, SentStep
<1>2. ASSUME NEW k \in Keys, k \notin K PROVE TopicInOrder(k)'
  BY <1>0, <1>2 DEF TopicInOrder, Sends, Before
<1>3. ASSUME NEW k \in K PROVE TopicInOrder(k)'
  <2> DEFINE R == RowsOf(batch[r], k)
             T == topic[k]
  <2>1. T \in Seq(Positions) /\ batch[r] \in Seq(Positions)
    BY <1>0 DEF TypeOK
  <2>2. R \in Seq(Positions) /\ ToSet(R) = {p \in ToSet(batch[r]) : KeyOf[p] = k}
    BY <2>1, RowsOfKey
  <2>3. \A j \in DOMAIN R : \E n \in DOMAIN batch[r] :
           /\ batch[r][n] = R[j]
           /\ \A m \in 1 .. n - 1 : KeyOf[batch[r][m]] = k => \E i \in 1 .. j - 1 : R[i] = batch[r][m]
    <3> DEFINE rows == batch[r]
    <3>1. rows \in Seq(Positions)  BY <2>1
    <3> HIDE DEF rows
    <3>2. \A j \in DOMAIN RowsOf(rows, k) : \E n \in DOMAIN rows :
           /\ rows[n] = RowsOf(rows, k)[j]
           /\ \A m \in 1 .. n - 1 : KeyOf[rows[m]] = k =>
                \E i \in 1 .. j - 1 : RowsOf(rows, k)[i] = rows[m]
      BY <3>1, RowsOfKey
    <3> QED BY <3>2 DEF rows
  <2>4. topic'[k] = T \o R
    BY <1>3 DEF Sends
  <2>5. TopicInOrder(k)
    BY <1>0
  <2> HIDE DEF R, T
  <2> SUFFICES ASSUME NEW j \in DOMAIN (T \o R), NEW p \in committed \ late,
                      KeyOf[p] = k, Before(p, (T \o R)[j])
               PROVE  \E i \in 1 .. j - 1 : (T \o R)[i] = p
    BY <2>4 DEF TopicInOrder, Before
  <2>6. Len(T) \in Nat /\ Len(R) \in Nat /\ j \in 1 .. Len(T) + Len(R)
    BY <2>1, <2>2
  <2>7. \A i \in 1 .. Len(T) : (T \o R)[i] = T[i]
    BY <2>1, <2>2
  <2>8. CASE j \in 1 .. Len(T)
    <3>1. (T \o R)[j] = T[j] /\ j \in DOMAIN T
      BY <2>1, <2>7, <2>8
    <3>2. PICK i \in 1 .. j - 1 : T[i] = p
      BY <3>1, <2>5 DEF TopicInOrder, T
    <3>3. i \in 1 .. Len(T)
      BY <2>6, <2>8
    <3> QED BY <3>2, <3>3, <2>7
  <2>9. CASE j \notin 1 .. Len(T)
    <3> DEFINE l == j - Len(T)
    <3>1. l \in 1 .. Len(R) /\ l \in DOMAIN R /\ (T \o R)[j] = R[l] /\ j = Len(T) + l
      BY <2>1, <2>2, <2>6, <2>9
    <3> HIDE DEF l
    <3>2. PICK n \in DOMAIN batch[r] :
             /\ batch[r][n] = R[l]
             /\ \A m \in 1 .. n - 1 : KeyOf[batch[r][m]] = k => \E i \in 1 .. l - 1 : R[i] = batch[r][m]
      BY <2>3, <3>1
    <3>3. KeyOf[R[l]] = k
      BY <2>2, <3>1 DEF ToSet
    <3>4. p \in Sent(k) \/ \E m \in 1 .. n - 1 : batch[r][m] = p
      BY <3>1, <3>2, <3>3, <1>0 DEF BatchInOrder
    <3>5. CASE p \in Sent(k)
      <4>1. PICK i \in DOMAIN T : T[i] = p
        BY <3>5 DEF Sent, ToSet, T
      <4>2. i \in 1 .. Len(T)
        BY <4>1, <2>1
      <4> QED BY <4>1, <4>2, <2>6, <2>7, <3>1
    <3>6. CASE \E m \in 1 .. n - 1 : batch[r][m] = p
      <4>1. PICK i \in 1 .. l - 1 : R[i] = p
        BY <3>2, <3>6
      <4>2. Len(T) + i \in 1 .. j - 1 /\ (T \o R)[Len(T) + i] = R[i]
        BY <2>1, <2>2, <2>6, <3>1
      <4> QED BY <4>1, <4>2
    <3> QED BY <3>4, <3>5, <3>6
  <2> QED BY <2>8, <2>9
<1> QED BY <1>1, <1>2, <1>3

\* Every step keeps the order: writers by committing on time, ticks by sending a whole
\* batch of a key behind what was sent of it before.
LEMMA OrderNextInv == OrderInv /\ [Next]_vars => OrderInv'
<1> SUFFICES ASSUME OrderInv, [Next]_vars
             PROVE  (\A k \in Keys : TopicInOrder(k)') /\ (\A r \in Relays : BatchInOrder(r)')
  BY RelayNextInv DEF OrderInv
<1>0. TypeOK /\ (\A k \in Keys : TopicInOrder(k)) /\ (\A r \in Relays : BatchInOrder(r))
  BY DEF OrderInv, RelayInv
<1>1. ASSUME topic' = topic, batch' = batch, committed' = committed, late' = late
      PROVE  (\A k \in Keys : TopicInOrder(k)') /\ (\A r \in Relays : BatchInOrder(r)')
  BY <1>0, <1>1 DEF TopicInOrder, BatchInOrder, Before, Sent
<1>2. ASSUME NEW r \in Relays, topic' = topic, committed' = committed, late' = late,
             batch' = [batch EXCEPT ![r] = <<>>]
      PROVE  (\A k \in Keys : TopicInOrder(k)') /\ (\A q \in Relays : BatchInOrder(q)')
  <2>1. \A k \in Keys : TopicInOrder(k)'
    BY <1>0, <1>2 DEF TopicInOrder, Before
  <2>2. \A q \in Relays \ {r} : batch'[q] = batch[q]
    BY <1>0, <1>2 DEF TypeOK
  <2>3. DOMAIN batch'[r] = {}
    BY <1>0, <1>2 DEF TypeOK
  <2> QED BY <1>0, <1>2, <2>1, <2>2, <2>3 DEF BatchInOrder, Before, Sent
<1>3. ASSUME NEW w \in Writers, WriterStamp(w) \/ WriterCommit(w) \/ WriterRollback(w)
      PROVE  (\A k \in Keys : TopicInOrder(k)') /\ (\A r \in Relays : BatchInOrder(r)')
  BY <1>1, <1>3, CommitKeepsOrder DEF WriterStamp, Stamp, WriterRollback, Rollback, relayVars
<1>4. ASSUME NEW r \in Relays, SelectNothing(r) \/ Select(r) \/ Mark(r)
      PROVE  (\A k \in Keys : TopicInOrder(k)') /\ (\A q \in Relays : BatchInOrder(q)')
  <2>1. CASE SelectNothing(r)  BY <2>1, <1>1 DEF SelectNothing, vars
  <2>2. CASE Select(r)         BY <2>2, SelectKeepsOrder
  <2>3. CASE Mark(r)           BY <2>3, <1>2 DEF Mark, logVars
  <2> QED BY <1>4, <2>1, <2>2, <2>3
<1>5. ASSUME NEW r \in Relays, Publish(r)
      PROVE  (\A k \in Keys : TopicInOrder(k)') /\ (\A q \in Relays : BatchInOrder(q)')
  <2>1. Sends(r, Keys) /\ UNCHANGED <<logVars, published, late, batch, faults>>
    BY <1>5 DEF Publish, Sends
  <2>2. (\A k \in Keys : TopicInOrder(k)') /\ (\A k \in Keys : Sent(k) \subseteq Sent(k)')
    BY <2>1, SendsInOrder DEF logVars
  <2>3. \A p \in committed : KeyOf[p] \in Keys
    BY <1>0, OnlyPositions, RelayAssumption
  <2> QED BY <1>0, <2>1, <2>2, <2>3 DEF BatchInOrder, Before, logVars
<1>6. ASSUME NEW r \in Relays, PublishFails(r)
      PROVE  (\A k \in Keys : TopicInOrder(k)') /\ (\A q \in Relays : BatchInOrder(q)')
  <2>1. PICK K \in SUBSET Keys : Sends(r, K)
    BY <1>6 DEF PublishFails, Sends
  <2>2. (\A k \in Keys : TopicInOrder(k)') /\ (\A k \in Keys : Sent(k) \subseteq Sent(k)')
    BY <1>6, <2>1, SendsInOrder DEF PublishFails, GiveUp, logVars
  <2>3. \A p \in committed : KeyOf[p] \in Keys
    BY <1>0, OnlyPositions, RelayAssumption
  <2>4. \A q \in Relays \ {r} : batch'[q] = batch[q]
    BY <1>0, <1>6 DEF PublishFails, GiveUp, TypeOK
  <2>5. DOMAIN batch'[r] = {}
    BY <1>0, <1>6 DEF PublishFails, GiveUp, TypeOK
  <2> QED BY <1>0, <1>6, <2>2, <2>3, <2>4, <2>5 DEF BatchInOrder, Before, PublishFails, GiveUp, logVars
<1>7. ASSUME NEW r \in Relays, Crash(r)
      PROVE  (\A k \in Keys : TopicInOrder(k)') /\ (\A q \in Relays : BatchInOrder(q)')
  BY <1>2, <1>7 DEF Crash, GiveUp, logVars
<1>8. CASE UNCHANGED vars
  BY <1>1, <1>8 DEF vars
<1> QED BY <1>3, <1>4, <1>5, <1>6, <1>7, <1>8 DEF Next, TickStep

\* The place where a row was first seen is the first of its places.
LEMMA FirstSeenIsFirst ==
  ASSUME TypeOK, NEW k \in Keys, NEW p \in Sent(k)
  PROVE  /\ FirstSeen(k, p) \in DOMAIN topic[k]
         /\ topic[k][FirstSeen(k, p)] = p
         /\ \A j \in 1 .. FirstSeen(k, p) - 1 : topic[k][j] # p
<1> DEFINE Places == {i \in DOMAIN topic[k] : topic[k][i] = p}
<1>1. Places \in SUBSET Nat /\ Places # {} /\ DOMAIN topic[k] = 1 .. Len(topic[k]) /\ Len(topic[k]) \in Nat
  BY DEF TypeOK, Sent, ToSet
<1>2. PICK i \in Places : \A j \in Places : i <= j
  <2> HIDE DEF Places
  <2> QED BY <1>1, LeastNumber
<1>3. \A j \in 1 .. i - 1 : topic[k][j] # p
  <2> SUFFICES ASSUME NEW j \in 1 .. i - 1, topic[k][j] = p PROVE FALSE
    OBVIOUS
  <2>1. j \in Places /\ j < i
    BY <1>1
  <2> QED BY <2>1, <1>1, <1>2
<1>4. \E m \in DOMAIN topic[k] : topic[k][m] = p /\ \A j \in 1 .. m - 1 : topic[k][j] # p
  BY <1>2, <1>3
<1> QED BY <1>4, Zenon DEF FirstSeen

\* A consumer that drops repeats sees the events of a key in the order in which they
\* were recorded, as long as no transaction commits behind a batch already selected:
\* safeTick orders by the time of recording and a key's rows share a partition.
THEOREM RelayDedupedInOrder == Spec => []DedupedInOrder
<1>1. OrderInv => DedupedInOrder
  <2> SUFFICES ASSUME OrderInv, NEW k \in Keys, NEW p \in Sent(k), NEW q \in Sent(k),
                      Before(p, q), p \notin late
               PROVE  FirstSeen(k, p) < FirstSeen(k, q)
    BY DEF DedupedInOrder
  <2>1. TypeOK /\ p \in committed /\ KeyOf[p] = k /\ TopicInOrder(k)
    BY DEF OrderInv, RelayInv, SentSound, SentAll
  <2> DEFINE i == FirstSeen(k, p)
             j == FirstSeen(k, q)
  <2>2. j \in DOMAIN topic[k] /\ topic[k][j] = q
    BY <2>1, FirstSeenIsFirst
  <2>3. i \in DOMAIN topic[k] /\ \A m \in 1 .. i - 1 : topic[k][m] # p
    BY <2>1, FirstSeenIsFirst
  <2> HIDE DEF i, j
  <2>4. PICK m \in 1 .. j - 1 : topic[k][m] = p
    BY <2>1, <2>2 DEF TopicInOrder
  <2>5. i \in Nat /\ j \in Nat
    BY <2>1, <2>2, <2>3 DEF TypeOK
  <2>6. ~(m < i)
    BY <2>3, <2>4, <2>5
  <2> QED BY <2>4, <2>5, <2>6 DEF i, j
<1> QED BY <1>1, OrderInitInv, OrderNextInv, PTL DEF Spec

-----------------------------------------------------------------------------
(* Tracking ingest.                                                         *)

\* What becomes of an emission that has been through, by a log L and a history U
\* of what was not matched: its event is recorded, or no shipment was found, or
\* the reference names another thing.
Settled(L, U, e) ==
  \/ \E x \in DOMAIN L : x.type = e.type /\ x.ref = e.ref /\ x.match = e.match
  \/ <<e.type, e.ref>> \in U
  \/ Ambiguous(e)

\* A handler has what is left of its message, and what is not left is settled.
CallSound(L, U, c) ==
  /\ c = [feed |-> c.feed, todo |-> c.todo, found |-> c.found]
  /\ c.feed \in Feeds \cup {NoFeed, AisFeed}
  /\ c.found # Null => c.todo # <<>>
  /\ c.feed = NoFeed => c = Idle
  /\ c.feed = AisFeed /\ c.todo # <<>> =>
       c.todo = <<c.todo[1]>> /\ c.todo[1].type = "vessel.position_reported"
  /\ c.feed \in Feeds =>
       \E n \in 0 .. Len(FeedOf[c.feed]) :
         /\ c.todo = SubSeq(FeedOf[c.feed], n + 1, Len(FeedOf[c.feed]))
         /\ \A i \in 1 .. n : Settled(L, U, FeedOf[c.feed][i])

\* What is on the log of other types came with some message.
LogSound(L) ==
  \A x \in DOMAIN L : x.type # "vessel.position_reported" =>
    \E f \in Feeds : \E o \in EmissionsOf(f) :
      x.type = o.type /\ x.ref = o.ref /\ x.match = o.match

\* What was not answered is due whole.
DueSound ==
  /\ DOMAIN due \subseteq Feeds
  /\ \A f \in DOMAIN due : due[f] = FeedOf[f]

CallsSound ==
  /\ call = [h \in Handlers |-> call[h]]
  /\ \A h \in Handlers : CallSound(log, unmatched, call[h])

IngestInv == CallsSound /\ DueSound /\ LogSound(log) /\ MilestonesRecorded

\* What a call has settled stays settled when the log and the review queue grow.
LEMMA SoundLater ==
  ASSUME NEW L, NEW U, NEW M, NEW V, DOMAIN L \subseteq DOMAIN M, U \subseteq V,
         NEW c, CallSound(L, U, c)
  PROVE  CallSound(M, V, c)
<1>1. \A e : Settled(L, U, e) => Settled(M, V, e)
  BY DEF Settled
<1> QED BY <1>1 DEF CallSound

\* A handler at rest has nothing to settle.
LEMMA IdleSound == \A L, U : CallSound(L, U, Idle)
BY TrackingAssumption DEF CallSound, Idle, NoFeed, AisFeed

\* Settling the emission at hand leaves the call sound.
LEMMA NextEmission ==
  ASSUME NEW L, NEW U, NEW c, CallSound(L, U, c), c.todo # <<>>,
         c.feed \in Feeds => Settled(L, U, Head(c.todo))
  PROVE  CallSound(L, U, [feed |-> c.feed, todo |-> Tail(c.todo), found |-> Null])
<1> DEFINE d == [feed |-> c.feed, todo |-> Tail(c.todo), found |-> Null]
<1>1. c.feed # NoFeed
  BY DEF CallSound, Idle
<1>2. CASE c.feed = AisFeed
  <2>1. Tail(c.todo) = <<>>
    <3>1. c.todo = <<c.todo[1]>>  BY <1>2 DEF CallSound
    <3>2. \A x : Tail(<<x>>) = <<>>  OBVIOUS
    <3> QED BY <3>1, <3>2
  <2>2. c.feed \notin Feeds
    BY <1>2, TrackingAssumption
  <2> QED BY <1>1, <1>2, <2>1, <2>2 DEF CallSound
<1>3. CASE c.feed \in Feeds
  <2> DEFINE s == FeedOf[c.feed]
  <2>1. s \in Seq(EmissionsOf(c.feed)) /\ c.feed # AisFeed
    BY <1>3, TrackingAssumption
  <2>2. PICK n \in 0 .. Len(s) : c.todo = SubSeq(s, n + 1, Len(s)) /\ \A i \in 1 .. n : Settled(L, U, s[i])
    BY <1>3 DEF CallSound
  <2> HIDE DEF s
  <2>3. Len(s) \in Nat /\ n \in Nat
    BY <2>1
  <2>4. n < Len(s)
    <3> SUFFICES ASSUME n = Len(s) PROVE FALSE
      BY <2>2, <2>3
    <3>1. c.todo = <<>>
      BY <2>1, <2>2, <2>3, SubSeqEmpty
    <3> QED BY <3>1
  <2>5. n + 1 \in 1 .. Len(s) /\ Len(s) \in n + 1 .. Len(s)
    BY <2>3, <2>4
  <2>6. Head(c.todo) = s[n + 1] /\ Tail(c.todo) = SubSeq(s, (n + 1) + 1, Len(s))
    BY <2>1, <2>2, <2>5, HeadTailOfSubSeq
  <2>7. \A i \in 1 .. n + 1 : Settled(L, U, s[i])
    <3> SUFFICES ASSUME NEW i \in 1 .. n + 1, i # n + 1 PROVE Settled(L, U, s[i])
      BY <1>3, <2>6
    <3>1. i \in 1 .. n
      BY <2>3
    <3> QED BY <3>1, <2>2
  <2>8. \E m \in 0 .. Len(s) : d.todo = SubSeq(s, m + 1, Len(s)) /\ \A i \in 1 .. m : Settled(L, U, s[i])
    BY <2>3, <2>4, <2>6, <2>7
  <2> QED BY <1>1, <1>3, <2>1, <2>8 DEF CallSound, s
<1> QED BY <1>1, <1>2, <1>3 DEF CallSound

\* An event that was not on the log is on it once when it has been appended.
LEMMA AppendedLog ==
  ASSUME NEW e, e \notin DOMAIN log, log' = log (+) SetToBag({e})
  PROVE  /\ DOMAIN log' = DOMAIN log \cup {e}
         /\ log'[e] = 1
         /\ \A x \in DOMAIN log : log[x] = 1 => log'[x] = 1
BY DEF SetToBag, (+)

\* A call is a record of three fields, and an update replaces the one it names.
LEMMA CallFields ==
  ASSUME NEW c, c = [feed |-> c.feed, todo |-> c.todo, found |-> c.found], NEW t, NEW u
  PROVE  /\ [c EXCEPT !.todo = t] = [feed |-> c.feed, todo |-> t, found |-> c.found]
         /\ [c EXCEPT !.found = u] = [feed |-> c.feed, todo |-> c.todo, found |-> u]
<1>1. DOMAIN c = {"feed", "todo", "found"}
  OBVIOUS
<1> QED BY <1>1

\* The updates the ingest makes of a call, as the records they result in.
LEMMA CallUpdate ==
  ASSUME NEW h \in DOMAIN call, NEW u,
         call[h] = [feed |-> call[h].feed, todo |-> call[h].todo, found |-> call[h].found]
  PROVE  LET c == call[h] IN
         /\ [call EXCEPT ![h].todo = Tail(@)]
            = [call EXCEPT ![h] = [feed |-> c.feed, todo |-> Tail(c.todo), found |-> c.found]]
         /\ [call EXCEPT ![h].found = u]
            = [call EXCEPT ![h] = [feed |-> c.feed, todo |-> c.todo, found |-> u]]
         /\ [call EXCEPT ![h].todo = Tail(@), ![h].found = u]
            = [call EXCEPT ![h] = [feed |-> c.feed, todo |-> Tail(c.todo), found |-> u]]
<1> DEFINE c == call[h]
           d == [feed |-> c.feed, todo |-> Tail(c.todo), found |-> c.found]
<1>1. [call EXCEPT ![h].todo = Tail(@)] = [call EXCEPT ![h] = [c EXCEPT !.todo = Tail(c.todo)]]
      /\ [call EXCEPT ![h].found = u] = [call EXCEPT ![h] = [c EXCEPT !.found = u]]
      /\ [call EXCEPT ![h].todo = Tail(@), ![h].found = u]
         = [call EXCEPT ![h] = [[c EXCEPT !.todo = Tail(c.todo)] EXCEPT !.found = u]]
  OBVIOUS
<1>2. c = [feed |-> c.feed, todo |-> c.todo, found |-> c.found]
  OBVIOUS
<1> HIDE DEF c
<1>3. [c EXCEPT !.todo = Tail(c.todo)] = d
      /\ [c EXCEPT !.found = u] = [feed |-> c.feed, todo |-> c.todo, found |-> u]
  BY <1>2, CallFields
<1>4. d = [feed |-> d.feed, todo |-> d.todo, found |-> d.found]
  OBVIOUS
<1>5. d.feed = c.feed /\ d.todo = Tail(c.todo)
  OBVIOUS
<1> HIDE DEF d
<1>6. [d EXCEPT !.found = u] = [feed |-> c.feed, todo |-> Tail(c.todo), found |-> u]
  BY <1>4, <1>5, CallFields
<1> QED BY <1>1, <1>3, <1>6 DEF c, d

\* A call that changes in one handler only.
LEMMA OneCall ==
  ASSUME CallsSound, NEW h \in Handlers, NEW c, call' = [call EXCEPT ![h] = c],
         DOMAIN log \subseteq DOMAIN log', unmatched \subseteq unmatched',
         CallSound(log', unmatched', c)
  PROVE  CallsSound'
<1>1. \A g \in Handlers : CallSound(log', unmatched', call[g])
  BY SoundLater DEF CallsSound
<1>2. \A g \in Handlers : call'[g] = IF g = h THEN c ELSE call[g]
  BY DEF CallsSound
<1>3. call' = [g \in Handlers |-> call'[g]]
  BY DEF CallsSound
<1> QED BY <1>1, <1>2, <1>3 DEF CallsSound

\* Before the first webhook no emission is answered for,
LEMMA TrackingInitInv == TrackingInit => IngestInv
<1> SUFFICES ASSUME TrackingInit PROVE IngestInv
  OBVIOUS
<1>1. CallsSound
  BY IdleSound DEF TrackingInit, CallsSound
<1>2. DueSound /\ Answered = {}
  BY TrackingAssumption DEF TrackingInit, DueSound, Answered
<1>3. DOMAIN log = {}
  BY DEF TrackingInit, EmptyBag, SetToBag
<1> QED BY <1>1, <1>2, <1>3
       DEF IngestInv, LogSound, MilestonesRecorded, AnsweredIsRecorded, RecordedOnce

\* and each step of a handler settles the emission at hand before it goes on to the
\* next, or answers with an error and forgets the call.
LEMMA TrackingNextInv == IngestInv /\ [WebhookNext \/ ListenerNext]_trackingVars => IngestInv'
<1> SUFFICES ASSUME IngestInv, [WebhookNext \/ ListenerNext]_trackingVars PROVE IngestInv'
  OBVIOUS
<1>0. CallsSound /\ DueSound /\ LogSound(log) /\ AnsweredIsRecorded /\ RecordedOnce
  BY DEF IngestInv, MilestonesRecorded
<1>a. ASSUME log' = log, unmatched \subseteq unmatched', due' = due, CallsSound'
      PROVE  IngestInv'
  BY <1>0, <1>a DEF IngestInv, DueSound, MilestonesRecorded, AnsweredIsRecorded, RecordedOnce, Answered
<1>b. ASSUME call' = call, log' = log, unmatched' = unmatched, due' = due
      PROVE  IngestInv'
  BY <1>0, <1>a, <1>b DEF CallsSound
<1>c. ASSUME NEW h \in Handlers, NEW c, CallSound(log, unmatched, c), call' = [call EXCEPT ![h] = c],
             log' = log, unmatched' = unmatched, due' = due
      PROVE  IngestInv'
  <2>1. CallsSound'
    BY <1>0, <1>c, OneCall
  <2> QED BY <1>a, <1>c, <2>1
<1>d. ASSUME NEW h \in Handlers, FailCall(h), log' = log, unmatched' = unmatched, due' = due
      PROVE  IngestInv'
  <2>1. CASE call' = [g \in Handlers |-> Idle]
    <3>1. CallsSound'
      BY <2>1, <1>d, IdleSound DEF CallsSound
    <3> QED BY <3>1, <1>a, <1>d
  <2>2. CASE call' = [call EXCEPT ![h] = Idle]
    BY <2>2, <1>c, <1>d, IdleSound
  <2> QED BY <2>1, <2>2, <1>d DEF FailCall
<1>1. ASSUME NEW s \in Shipments, Moves(s) PROVE IngestInv'
  BY <1>1, <1>b DEF Moves
<1>2. ASSUME NEW h \in Handlers, NEW f \in Feeds, Deliver(h, f) PROVE IngestInv'
  <2> DEFINE c == [feed |-> f, todo |-> due[f], found |-> Null]
  <2>1. due[f] = FeedOf[f] /\ FeedOf[f] \in Seq(EmissionsOf(f))
    BY <1>0, <1>2, TrackingAssumption DEF Deliver, DueSound
  <2>2. Len(FeedOf[f]) \in Nat /\ SubSeq(FeedOf[f], 0 + 1, Len(FeedOf[f])) = FeedOf[f]
    BY <2>1, SubSeqFull
  <2>3. \E n \in 0 .. Len(FeedOf[f]) :
          /\ c.todo = SubSeq(FeedOf[f], n + 1, Len(FeedOf[f]))
          /\ \A i \in 1 .. n : Settled(log, unmatched, FeedOf[f][i])
    BY <2>1, <2>2
  <2>4. f # NoFeed /\ f # AisFeed
    BY TrackingAssumption
  <2>5. CallSound(log, unmatched, c)
    BY <2>3, <2>4 DEF CallSound
  <2> QED BY <1>2, <1>c, <2>5 DEF Deliver
<1>3. ASSUME NEW h \in Handlers, Resolve(h) PROVE IngestInv'
  <2> DEFINE c == call[h]
  <2>0. CallSound(log, unmatched, c) /\ c = [feed |-> c.feed, todo |-> c.todo, found |-> c.found]
        /\ h \in DOMAIN call
    BY <1>0 DEF CallsSound, CallSound
  <2>1. c.todo # <<>> /\ c.found = Null /\ log' = log /\ due' = due
    BY <1>3 DEF Resolve
  <2>2. CASE /\ unmatched' = unmatched \cup {<<Current(h).type, Current(h).ref>>}
             /\ call' = [call EXCEPT ![h].todo = Tail(@)]
    <3> DEFINE d == [feed |-> c.feed, todo |-> Tail(c.todo), found |-> Null]
    <3>1. call' = [call EXCEPT ![h] = d]
      BY <2>0, <2>1, <2>2, CallUpdate
    <3>2. CallSound(log, unmatched', c) /\ Settled(log, unmatched', Head(c.todo))
      BY <2>0, <2>2, SoundLater DEF Settled, Current
    <3>3. CallSound(log', unmatched', d)
      BY <2>1, <3>2, NextEmission
    <3>4. CallsSound'
      BY <1>0, <2>1, <2>2, <3>1, <3>3, OneCall
    <3> QED BY <1>a, <2>1, <2>2, <3>4
  <2>3. CASE /\ \E s \in Candidates(Current(h).match) : call' = [call EXCEPT ![h].found = s]
             /\ UNCHANGED unmatched
    <3>1. PICK s \in Candidates(Current(h).match) : call' = [call EXCEPT ![h].found = s]
      BY <2>3
    <3> DEFINE d == [feed |-> c.feed, todo |-> c.todo, found |-> s]
    <3>2. call' = [call EXCEPT ![h] = d]
      BY <2>0, <3>1, CallUpdate
    <3>3. c.feed # NoFeed
      BY <2>0, <2>1 DEF CallSound, Idle
    <3>4. CallSound(log, unmatched, d)
      BY <2>0, <2>1, <3>3 DEF CallSound
    <3> QED BY <1>c, <2>1, <2>3, <3>2, <3>4
  <2> QED BY <1>3, <2>2, <2>3 DEF Resolve
<1>4. ASSUME NEW h \in Handlers, AppendEmission(h) PROVE IngestInv'
  <2> DEFINE c == call[h]
             e == Head(c.todo)
             d == [feed |-> c.feed, todo |-> Tail(c.todo), found |-> Null]
             x == Event(e, c.found)
  <2>0. CallSound(log, unmatched, c) /\ c = [feed |-> c.feed, todo |-> c.todo, found |-> c.found]
        /\ h \in DOMAIN call
    BY <1>0 DEF CallsSound, CallSound
  <2>1. c.found # Null /\ c.todo # <<>> /\ unmatched' = unmatched /\ due' = due
    BY <1>4, <2>0 DEF AppendEmission, CallSound
  <2>2. call' = [call EXCEPT ![h] = d]
    BY <1>4, <2>0, CallUpdate DEF AppendEmission
  <2>3. x.type = e.type /\ x.ref = e.ref /\ x.match = e.match
    BY DEF Event
  <2>4. c.feed \in Feeds => e \in EmissionsOf(c.feed) /\ e.type # "vessel.position_reported"
    <3> SUFFICES ASSUME c.feed \in Feeds
                 PROVE  e \in EmissionsOf(c.feed) /\ e.type # "vessel.position_reported"
      OBVIOUS
    <3>1. PICK n \in 0 .. Len(FeedOf[c.feed]) :
            c.todo = SubSeq(FeedOf[c.feed], n + 1, Len(FeedOf[c.feed]))
      BY <2>0 DEF CallSound
    <3>2. FeedOf[c.feed] \in Seq(EmissionsOf(c.feed))
      BY TrackingAssumption
    <3>3. c.todo \in Seq(EmissionsOf(c.feed))
      BY <3>1, <3>2
    <3>4. e \in EmissionsOf(c.feed)
      BY <2>1, <3>3
    <3> QED BY <3>4, TrackingAssumption
  <2>5. c.feed \notin Feeds => e.type = "vessel.position_reported"
    BY <2>0, <2>1 DEF CallSound, Idle
  <2>6. DOMAIN log \subseteq DOMAIN log' /\ LogSound(log') /\ RecordedOnce'
    <3>1. CASE OnLog(e.type, e.ref)
      BY <3>1, <1>0, <1>4 DEF AppendEmission, Current, RecordedOnce
    <3>2. CASE ~OnLog(e.type, e.ref)
      <4>1. log' = log (+) SetToBag({x}) /\ x \notin DOMAIN log
        BY <3>2, <1>4, <2>3 DEF AppendEmission, Current, OnLog
      <4>2. /\ DOMAIN log' = DOMAIN log \cup {x}
            /\ log'[x] = 1
            /\ \A y \in DOMAIN log : log[y] = 1 => log'[y] = 1
        <5> HIDE DEF x
        <5> QED BY <4>1, AppendedLog
      <4>3. LogSound(log')
        BY <4>2, <1>0, <2>3, <2>4, <2>5 DEF LogSound
      <4>4. RecordedOnce'
        BY <4>2, <3>2, <1>0, <2>3 DEF RecordedOnce, OnLog
      <4> QED BY <4>2, <4>3, <4>4
    <3> QED BY <3>1, <3>2
  <2>7. c.feed \in Feeds => Settled(log', unmatched', e)
    <3> SUFFICES ASSUME c.feed \in Feeds PROVE Settled(log', unmatched', e)
      OBVIOUS
    <3>1. PICK y \in DOMAIN log' : y.type = e.type /\ y.ref = e.ref
      <4>1. CASE OnLog(e.type, e.ref)
        BY <4>1, <2>6 DEF OnLog
      <4>2. CASE ~OnLog(e.type, e.ref)
        <5>1. log' = log (+) SetToBag({x}) /\ x \notin DOMAIN log
          BY <4>2, <1>4, <2>3 DEF AppendEmission, Current, OnLog
        <5>2. x \in DOMAIN log'
          <6> HIDE DEF x
          <6> QED BY <5>1, AppendedLog
        <5> QED BY <5>2, <2>3
      <4> QED BY <4>1, <4>2
    <3>2. PICK f \in Feeds : \E o \in EmissionsOf(f) : y.type = o.type /\ y.ref = o.ref /\ y.match = o.match
      BY <2>4, <2>6, <3>1 DEF LogSound
    <3>3. PICK o \in EmissionsOf(f) : y.type = o.type /\ y.ref = o.ref /\ y.match = o.match
      BY <3>2
    <3>4. CASE o = e
      BY <3>1, <3>3, <3>4 DEF Settled
    <3>5. CASE o # e
      BY <3>1, <3>3, <3>5 DEF Settled, Ambiguous
    <3> QED BY <3>4, <3>5
  <2>8. CallsSound'
    <3>1. CallSound(log', unmatched', c)
      BY <2>0, <2>1, <2>6, SoundLater
    <3>2. CallSound(log', unmatched', d)
      BY <2>1, <2>7, <3>1, NextEmission
    <3> QED BY <1>0, <2>1, <2>2, <2>6, <3>2, OneCall
  <2>9. AnsweredIsRecorded'
    BY <1>0, <2>1, <2>6 DEF AnsweredIsRecorded, Answered
  <2> QED BY <1>0, <2>1, <2>6, <2>8, <2>9 DEF IngestInv, DueSound, MilestonesRecorded
<1>5. ASSUME NEW h \in Handlers, Refuse(h) \/ IngestFails(h) PROVE IngestInv'
  BY <1>5, <1>d DEF Refuse, IngestFails
<1>6. ASSUME NEW h \in Handlers, Answer(h) PROVE IngestInv'
  <2> DEFINE f == call[h].feed
  <2>0. CallSound(log, unmatched, call[h]) /\ call[h].todo = <<>>
    BY <1>0, <1>6 DEF CallsSound, Answer
  <2>1. call' = [call EXCEPT ![h] = Idle] /\ log' = log /\ unmatched' = unmatched
        /\ due' = [g \in DOMAIN due \ {f} |-> due[g]]
    BY <1>6 DEF Answer
  <2>2. CallsSound'
    BY <1>0, <2>1, IdleSound, OneCall
  <2>3. f \in Feeds => \A e \in EmissionsOf(f) : Settled(log, unmatched, e)
    <3> SUFFICES ASSUME f \in Feeds, NEW e \in EmissionsOf(f) PROVE Settled(log, unmatched, e)
      OBVIOUS
    <3>1. FeedOf[f] \in Seq(EmissionsOf(f))
      BY TrackingAssumption
    <3>2. PICK n \in 0 .. Len(FeedOf[f]) :
            /\ call[h].todo = SubSeq(FeedOf[f], n + 1, Len(FeedOf[f]))
            /\ \A i \in 1 .. n : Settled(log, unmatched, FeedOf[f][i])
      BY <2>0 DEF CallSound
    <3>3. n = Len(FeedOf[f])
      <4> HIDE DEF f
      <4>1. Len(SubSeq(FeedOf[f], n + 1, Len(FeedOf[f]))) = Len(FeedOf[f]) - n
        BY <3>1
      <4> QED BY <4>1, <2>0, <3>1, <3>2
    <3>4. PICK i \in 1 .. Len(FeedOf[f]) : FeedOf[f][i] = e
      BY <3>1 DEF EmissionsOf
    <3> QED BY <3>2, <3>3, <3>4
  <2>4. AnsweredIsRecorded'
    BY <1>0, <2>1, <2>3 DEF AnsweredIsRecorded, Answered, Settled
  <2> QED BY <1>0, <2>1, <2>2, <2>4 DEF IngestInv, DueSound, MilestonesRecorded, RecordedOnce
<1>7. ASSUME NEW h \in Handlers, AnswerLost(h) PROVE IngestInv'
  BY <1>7, <1>c, IdleSound DEF AnswerLost
<1>8. ASSUME NEW h \in Handlers, NEW m \in AisMessages, Hear(h, m) PROVE IngestInv'
  <2> DEFINE E == Ais(imoOf, tracked, m)
             c == [feed |-> AisFeed, todo |-> E, found |-> Null]
  <2>1. E = <<>> \/ (E = <<E[1]>> /\ E[1].type = "vessel.position_reported")
    BY DEF Ais, Emission
  <2>2. AisFeed # NoFeed /\ AisFeed \notin Feeds
    BY TrackingAssumption DEF AisFeed, NoFeed
  <2> HIDE DEF E
  <2>3. CallSound(log, unmatched, c)
    BY <2>1, <2>2 DEF CallSound
  <2>4. call' = call \/ call' = [call EXCEPT ![h] = c]
    BY <1>8 DEF Hear, E
  <2> QED BY <1>8, <1>b, <1>c, <2>3, <2>4 DEF Hear
<1>9. ASSUME Refresh \/ Connect \/ Drop \/ Shutdown \/ Restart PROVE IngestInv'
  BY <1>9, <1>b DEF Refresh, Connect, Drop, Shutdown, Restart
<1>10. CASE UNCHANGED trackingVars
  BY <1>10, <1>b DEF trackingVars
<1> QED BY <1>1, <1>2, <1>3, <1>4, <1>5, <1>6, <1>7, <1>8, <1>9, <1>10
        DEF WebhookNext, ListenerNext, HandlerStep

\* A webhook is answered as ingested only when each of its emissions is on the log,
\* awaits review, or could not be told apart from another one, and no pair of type
\* and reference is ever recorded twice, however calls and retries interleave.
THEOREM IngestRecordsMilestones == TrackingSpec => []MilestonesRecorded
<1>1. IngestInv => MilestonesRecorded
  BY DEF IngestInv
<1> QED BY <1>1, TrackingInitInv, TrackingNextInv, PTL DEF TrackingSpec
====
