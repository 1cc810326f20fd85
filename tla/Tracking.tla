------------------------------- MODULE Tracking -------------------------------
(****************************************************************************)
(* Tracking ingest (modules/ingest): a handler per delivered message finds  *)
(* a shipment for each emission of its adapter and appends the event, one   *)
(* after the other, each in a statement of its own and none in a            *)
(* transaction.  The sender delivers again what was not answered, and that  *)
(* may be while the first delivery is still being handled.                  *)
(*                                                                          *)
(* Beside the webhooks, a listener holds a socket to an AIS stream and runs *)
(* every message through the same ingest, with nobody to tell of a failure: *)
(* the promise is dropped, and a rejected one ends the process and what the *)
(* webhooks had in flight.                                                  *)
(*                                                                          *)
(* MaxIngestFaults bounds the failed statements, MaxDrops the dropped       *)
(* connections and MaxHeard the AIS messages.                               *)
(****************************************************************************)
EXTENDS Adapters, Integers

CONSTANTS
  Shipments,
  Carries,      \* Carries[s]: the matches that lead to shipment s
  Feeds,        \* webhook messages
  FeedOf,       \* FeedOf[f]: the emissions its adapter makes of message f
  AisMessages,  \* what the AIS stream may send
  Handlers,     \* requests and AIS messages being handled
  MaxIngestFaults,
  MaxDrops,
  MaxHeard

NoFeed == "none"
AisFeed == "ais"

EmissionsOf(f) == {FeedOf[f][i] : i \in DOMAIN FeedOf[f]}

\* Only the listener reports where a vessel is.
ASSUME TrackingAssumption ==
  /\ {MaxIngestFaults, MaxDrops, MaxHeard} \subseteq Nat
  /\ Feeds \cap {NoFeed, AisFeed} = {}
  /\ DOMAIN FeedOf = Feeds
  /\ \A f \in Feeds :
       /\ FeedOf[f] \in Seq(EmissionsOf(f))
       /\ \A e \in EmissionsOf(f) : e.type # "vessel.position_reported"

VARIABLES
  stage,     \* stage[s]: "quoted", "moving" or "settled"
  log,       \* the events appended, each with its shipment: a bag
  call,      \* call[h]: a message being handled, and how far
  due,       \* due[f]: what a message not answered yet holds
  unmatched, \* history: <<type, ref>> for which no shipment was found
  listener,  \* the AIS listener: "booting", "open", "waiting" for its reconnect
             \* timer, or "closed"
  imoOf,     \* mmsiToImo
  tracked,   \* trackedImos
  ingestFaults,
  drops,
  heard

trackingVars ==
  <<stage, log, call, due, unmatched, listener, imoOf, tracked, ingestFaults, drops, heard>>

Idle == [feed |-> NoFeed, todo |-> <<>>, found |-> Null]

TrackingInit ==
  /\ stage \in [Shipments -> {"quoted", "moving"}]
  /\ log = EmptyBag
  /\ call = [h \in Handlers |-> Idle]
  /\ due = FeedOf
  /\ unmatched = {}
  /\ listener = "booting"
  /\ imoOf = <<>>
  /\ tracked = {}
  /\ ingestFaults = 0
  /\ drops = 0
  /\ heard = 0

Moving == {s \in Shipments : stage[s] = "moving"}

\* A shipment is booked, or delivered.
Moves(s) ==
  /\ stage[s] # "settled"
  /\ stage' = [stage EXCEPT ![s] = IF @ = "quoted" THEN "moving" ELSE "settled"]
  /\ UNCHANGED <<log, call, due, unmatched, listener, imoOf, tracked, ingestFaults, drops, heard>>

-----------------------------------------------------------------------------
(* IngestService.ingest, in handler h.                                      *)

\* A delivery of message f, the first or another.
Deliver(h, f) ==
  /\ call[h] = Idle /\ f \in DOMAIN due
  /\ call' = [call EXCEPT ![h] = [feed |-> f, todo |-> due[f], found |-> Null]]
  /\ UNCHANGED <<stage, log, due, unmatched, listener, imoOf, tracked, ingestFaults, drops, heard>>

Current(h) == Head(call[h].todo)
Candidates(match) == {s \in Moving : match \in Carries[s]}

\* resolve: any one of the moving shipments the match leads to, or none.
Resolve(h) ==
  /\ call[h].todo # <<>> /\ call[h].found = Null
  /\ IF Candidates(Current(h).match) = {}
       THEN /\ unmatched' = unmatched \cup {<<Current(h).type, Current(h).ref>>}
            /\ call' = [call EXCEPT ![h].todo = Tail(@)]
       ELSE /\ \E s \in Candidates(Current(h).match) : call' = [call EXCEPT ![h].found = s]
            /\ UNCHANGED unmatched
  /\ UNCHANGED <<stage, log, due, listener, imoOf, tracked, ingestFaults, drops, heard>>

\* The legs of a position ping's shipment are found with it.
Payload(e) == IF "legId" \in DOMAIN e.payload THEN [e.payload EXCEPT !.legId = "leg"] ELSE e.payload

OnLog(type, ref) == \E x \in DOMAIN log : x.type = type /\ x.ref = ref

\* The event makeEvent builds for emission e of shipment s.
Event(e, s) ==
  [type |-> e.type, ref |-> e.ref, match |-> e.match, payload |-> Payload(e), shipment |-> s]

\* What a failed statement or a refused payload leaves: the request is answered
\* with an error, or the process is gone and every call with it.
FailCall(h) ==
  IF call[h].feed = AisFeed
    THEN /\ call' = [g \in Handlers |-> Idle]
         /\ listener' = "booting"
         /\ imoOf' = <<>>
         /\ tracked' = {}
    ELSE /\ call' = [call EXCEPT ![h] = Idle]
         /\ UNCHANGED <<listener, imoOf, tracked>>

\* Defect for a mutation run: a redelivered event violates the unique index.
AppendEmissionOnce(h) ==
  /\ call[h].found # Null
  /\ LET e == Current(h) IN
     /\ Conforms(e.type, Payload(e)) /\ ~OnLog(e.type, e.ref)
     /\ log' = log (+) SetToBag({Event(e, call[h].found)})
     /\ call' = [call EXCEPT ![h].todo = Tail(@), ![h].found = Null]
  /\ UNCHANGED <<stage, due, unmatched, listener, imoOf, tracked, ingestFaults, drops, heard>>

\* Defect for a mutation run: the insert is a plain one and nothing makes it unique.
AppendEmissionAgain(h) ==
  /\ call[h].found # Null
  /\ LET e == Current(h) IN
     /\ Conforms(e.type, Payload(e))
     /\ log' = log (+) SetToBag({Event(e, call[h].found)})
     /\ call' = [call EXCEPT ![h].todo = Tail(@), ![h].found = Null]
  /\ UNCHANGED <<stage, due, unmatched, listener, imoOf, tracked, ingestFaults, drops, heard>>

\* makeEvent and appendEventIdempotent: once per type and reference.
AppendEmission(h) ==
  /\ call[h].found # Null
  /\ LET e == Current(h) IN
     /\ Conforms(e.type, Payload(e))
     /\ log' = IF OnLog(e.type, e.ref) THEN log
               ELSE log (+) SetToBag({Event(e, call[h].found)})
     /\ call' = [call EXCEPT ![h].todo = Tail(@), ![h].found = Null]
  /\ UNCHANGED <<stage, due, unmatched, listener, imoOf, tracked, ingestFaults, drops, heard>>

\* makeEvent throws, and what is left of the batch is not looked at.
Refuse(h) ==
  /\ call[h].found # Null
  /\ ~Conforms(Current(h).type, Payload(Current(h)))
  /\ FailCall(h)
  /\ UNCHANGED <<stage, log, due, unmatched, ingestFaults, drops, heard>>

\* A statement fails, or the instance does.
IngestFails(h) ==
  /\ call[h].todo # <<>>
  /\ ingestFaults < MaxIngestFaults
  /\ ingestFaults' = ingestFaults + 1
  /\ FailCall(h)
  /\ UNCHANGED <<stage, log, due, unmatched, drops, heard>>

\* Every emission has been through: 201, with the counts.
Answer(h) ==
  /\ call[h] # Idle /\ call[h].todo = <<>>
  /\ due' = [f \in DOMAIN due \ {call[h].feed} |-> due[f]]
  /\ call' = [call EXCEPT ![h] = Idle]
  /\ UNCHANGED <<stage, log, unmatched, listener, imoOf, tracked, ingestFaults, drops, heard>>

\* The answer is lost on its way, which to the sender is no answer.
AnswerLost(h) ==
  /\ call[h].feed \in Feeds /\ call[h].todo = <<>>
  /\ ingestFaults < MaxIngestFaults
  /\ ingestFaults' = ingestFaults + 1
  /\ call' = [call EXCEPT ![h] = Idle]
  /\ UNCHANGED <<stage, log, due, unmatched, listener, imoOf, tracked, drops, heard>>

HandlerStep(h) == Resolve(h) \/ AppendEmission(h) \/ Refuse(h) \/ Answer(h)

-----------------------------------------------------------------------------
(* AisListenerService.                                                      *)

\* refreshTrackedVessels: at boot and then on a timer; a failed one keeps the set.
VesselsOf(S) == {m[2] : m \in {n \in UNION {Carries[s] : s \in S} : n[1] = "vesselImo"}}

Refresh ==
  /\ listener # "closed"
  /\ tracked' = VesselsOf(Moving)
  /\ UNCHANGED <<stage, log, call, due, unmatched, listener, imoOf, ingestFaults, drops, heard>>

\* connect, at boot or when the timer of a dropped connection fires.
Connect ==
  /\ listener \in {"booting", "waiting"}
  /\ listener' = "open"
  /\ UNCHANGED <<stage, log, call, due, unmatched, imoOf, tracked, ingestFaults, drops, heard>>

\* The connection is refused or lost: `close`, after `error` or not.
Drop ==
  /\ listener = "open" /\ drops < MaxDrops
  /\ drops' = drops + 1
  /\ listener' = "waiting"
  /\ UNCHANGED <<stage, log, call, due, unmatched, imoOf, tracked, ingestFaults, heard>>

\* handleMessage, up to its first await.
Hear(h, m) ==
  /\ listener = "open" /\ heard < MaxHeard
  /\ call[h] = Idle
  /\ heard' = heard + 1
  /\ imoOf' = LearnImo(imoOf, m)
  /\ LET emissions == Ais(imoOf, tracked, m) IN
       call' = IF emissions = <<>> THEN call
               ELSE [call EXCEPT ![h] = [feed |-> AisFeed, todo |-> emissions, found |-> Null]]
  /\ UNCHANGED <<stage, log, due, unmatched, listener, tracked, ingestFaults, drops>>

\* onModuleDestroy: the timers are cleared, the socket closed.
Shutdown ==
  /\ listener \in {"open", "waiting"}
  /\ listener' = "closed"
  /\ UNCHANGED <<stage, log, call, due, unmatched, imoOf, tracked, ingestFaults, drops, heard>>

\* The next process takes over once the requests of the old one are answered.
Restart ==
  /\ listener = "closed"
  /\ \A h \in Handlers : call[h] = Idle
  /\ listener' = "booting"
  /\ imoOf' = <<>>
  /\ tracked' = {}
  /\ UNCHANGED <<stage, log, call, due, unmatched, ingestFaults, drops, heard>>

WebhookNext ==
  \/ \E s \in Shipments : Moves(s)
  \/ \E h \in Handlers :
       (\E f \in Feeds : Deliver(h, f)) \/ HandlerStep(h)
       \/ IngestFails(h) \/ AnswerLost(h)

ListenerNext ==
  \/ \E h \in Handlers, m \in AisMessages : Hear(h, m)
  \/ Refresh \/ Connect \/ Drop \/ Shutdown \/ Restart

TrackingSpec == TrackingInit /\ [][WebhookNext \/ ListenerNext]_trackingVars

-----------------------------------------------------------------------------
(* Properties.                                                              *)

Answered == Feeds \ DOMAIN due

\* Another thing goes by the same reference: what is recorded second is taken
\* for a redelivery of what was recorded first.
Ambiguous(e) ==
  \E f \in Feeds : \E o \in EmissionsOf(f) : o.type = e.type /\ o.ref = e.ref /\ o # e

AnsweredIsRecorded ==
  \A f \in Answered : \A e \in EmissionsOf(f) :
    \/ \E x \in DOMAIN log : x.type = e.type /\ x.ref = e.ref /\ x.match = e.match
    \/ <<e.type, e.ref>> \in unmatched
    \/ Ambiguous(e)

RecordedOnce ==
  \A x, y \in DOMAIN log : x.type = y.type /\ x.ref = y.ref => x = y /\ log[x] = 1

\* What a sender may take an answer for: every milestone of an answered message
\* is on the log, once however often and by however many it was delivered,
\* unless no shipment was found for it or its reference names another thing.
MilestonesRecorded == AnsweredIsRecorded /\ RecordedOnce

\* A message the catalogue accepts whole, as ingest would record it.
Sound(f) == \A e \in EmissionsOf(f) : Conforms(e.type, Payload(e))

=============================================================================
