-------------------------------- MODULE Feeds --------------------------------
(***************************************************************************)
(* What the platform asks of systems outside it (integrations/): the       *)
(* registry of them and how it reads the configuration, the fuel index a   *)
(* surcharge is held to, the gate times demurrage runs on, and the filing  *)
(* of a declaration.  Each is a function of what is stored, what is        *)
(* configured and what the other side answers; an answer that fails, or    *)
(* makes no sense, is none: <<>>.                                          *)
(***************************************************************************)
EXTENDS Integers, Sequences, FiniteSets, FiniteSetsExt, TLC

CONSTANT Unknown     \* a time or a reference nobody has given

-----------------------------------------------------------------------------
(* The registry.                                                           *)

Integration(required, optional, accredited, production) ==
  [required |-> required, optional |-> optional, accredited |-> accredited, production |-> production]

Registry ==
  "sars_customs_edi" :> Integration({"SARS_EDI_URL", "SARS_CLIENT_NUMBER", "SARS_CLIENT_CERT_PATH",
                                     "SARS_CLIENT_KEY_PATH"}, {}, TRUE, FALSE)
  @@ "sars_efiling" :> Integration({"SARS_EFILING_URL"}, {}, TRUE, FALSE)
  @@ "fuel_index" :> Integration({"FUEL_INDEX_URL"}, {"FUEL_INDEX_API_KEY"}, TRUE, FALSE)
  @@ "terminal_events" :> Integration({"TERMINAL_EVENTS_URL"}, {"TERMINAL_EVENTS_API_KEY"}, TRUE, FALSE)
  @@ "sanctions_screening" :> Integration({"YENTE_URL"}, {}, FALSE, TRUE)
  @@ "carrier_tracking" :> Integration({"INGEST_API_KEY"}, {}, TRUE, TRUE)
  @@ "ais" :> Integration({"AISSTREAM_API_KEY"}, {}, FALSE, FALSE)
  @@ "document_extraction" :> Integration({"ANTHROPIC_API_KEY"}, {}, FALSE, FALSE)
  @@ "notifications" :> Integration({"NOVU_API_KEY"}, {}, TRUE, FALSE)
  @@ "identity" :> Integration({"AUTH_ISSUER"}, {}, FALSE, TRUE)
  @@ "event_stream" :> Integration({"KAFKA_BROKERS"}, {}, FALSE, TRUE)

\* The state of an integration under the settings that are not empty.
StateOf(key, set) ==
  LET missing == Registry[key].required \ set
  IN CASE missing = {} -> IF Registry[key].optional \subseteq set THEN "CONFIGURED" ELSE "PARTIAL"
       [] missing = Registry[key].required -> "NOT_CONFIGURED"
       [] OTHER -> "PARTIAL"

Unready(set) == {k \in DOMAIN Registry : StateOf(k, set) # "CONFIGURED"}

Summary(set) ==
  [count |-> [s \in {"CONFIGURED", "PARTIAL", "NOT_CONFIGURED"} |->
                Cardinality({k \in DOMAIN Registry : StateOf(k, set) = s})],
   blocking      |-> {k \in Unready(set) : Registry[k].production},
   accreditation |-> {k \in Unready(set) : Registry[k].accredited}]

-----------------------------------------------------------------------------
(* The fuel index.                                                         *)

\* The newest quote on file that is no older than maxAge; with none, what the
\* feed says, whatever its age, filed unless that day already has a quote.
BenchmarkFor(cache, index, currency, now, maxAge, enabled, answer) ==
  LET fresh == {q \in cache : q.index = index /\ q.currency = currency /\ q.day >= now - maxAge}
      quote == [index |-> index, currency |-> currency, value |-> answer[1].value,
                day |-> IF answer[1].day = Unknown THEN now ELSE answer[1].day]
      taken == \E q \in cache : q.index = index /\ q.day = quote.day
  IN CASE fresh # {} ->
            [benchmark |-> <<CHOOSE q \in fresh : \A r \in fresh : q.day >= r.day>>, cache |-> cache]
       [] fresh = {} /\ (~enabled \/ answer = <<>>) -> [benchmark |-> <<>>, cache |-> cache]
       [] OTHER -> [benchmark |-> <<quote>>, cache |-> IF taken THEN cache ELSE cache \cup {quote}]

-----------------------------------------------------------------------------
(* The gate clock of a shipment.                                           *)

EarliestOf(log, type) ==
  LET hits == {e.at : e \in {f \in log : f.type = type}} IN IF hits = {} THEN Unknown ELSE Min(hits)

Clock(discharged, gateOut, emptied, source) ==
  [discharged |-> discharged, gateOut |-> gateOut, emptied |-> emptied, source |-> source]

\* From this platform's log when it has both times, and else from the terminal,
\* which is asked about the containers that have a number.
GateClock(log, numbered, enabled, answer) ==
  LET discharged == EarliestOf(log, "container.discharged")
      gateOut == EarliestOf(log, "container.gated_out")
      remote == IF enabled /\ numbered THEN answer ELSE <<>>
      source == IF {discharged, gateOut} = {Unknown} THEN "NONE" ELSE "EVENT_LOG"
  IN IF Unknown \notin {discharged, gateOut}
     THEN Clock(discharged, gateOut, IF remote = <<>> THEN Unknown ELSE remote[1].emptied, source)
     ELSE IF remote = <<>> THEN Clock(discharged, gateOut, Unknown, source)
     ELSE Clock(remote[1].discharged, remote[1].gateOut, remote[1].emptied, "TERMINAL_API")

-----------------------------------------------------------------------------
(* Filing with the revenue authority.                                      *)

Same(filing, request) ==
  /\ filing.tenant = request.tenant
  /\ filing.kind = request.kind
  /\ filing.submission = request.submission

\* The row a request leaves: the one already there with the payload replaced.
Upserted(filings, request) ==
  LET there == {f \in filings : Same(f, request)}
  IN IF there = {}
     THEN [tenant |-> request.tenant, kind |-> request.kind, submission |-> request.submission,
           payload |-> request.payload, status |-> "QUEUED", authorityRef |-> Unknown]
     ELSE [CHOOSE f \in there : TRUE EXCEPT !.payload = request.payload]

\* The authority's verdict on a row: accepted under a reference, refused, or
\* nothing heard.
Answered(row, answer) ==
  CASE answer = <<>> -> row
    [] answer # <<>> /\ answer[1].ok -> [row EXCEPT !.status = "SUBMITTED", !.authorityRef = answer[1].ref]
    [] OTHER -> [row EXCEPT !.status = "REJECTED"]

\* indexed: the database has the index the upsert names.  Without it the
\* statement fails, and with it the call.  What the caller is told is the new
\* row's status, or QUEUED when nothing was sent or heard.
Submit(filings, request, enabled, answer, indexed) ==
  LET row == Answered(Upserted(filings, request), IF enabled THEN answer ELSE <<>>)
  IN IF ~indexed THEN [filings |-> filings, told |-> "ERROR"]
     ELSE [filings |-> {f \in filings : ~Same(f, request)} \cup {row},
           told |-> IF enabled /\ answer # <<>> THEN row.status ELSE "QUEUED"]

-----------------------------------------------------------------------------
(* Telling the customer (projector/notification-dispatcher.ts).             *)

Milestones == {"vessel.departed", "vessel.arrived", "entry.released", "pod.confirmed"}

\* The call of the provider an event leads to, if any: the row of the shipment, its
\* booking and its customer must be there, and the customer reachable.  What the
\* provider answers is only logged, and the event counts as handled either way.
Notification(event, customerOf, reachable, enabled) ==
  {[to |-> customerOf[shipment], milestone |-> event.type] :
     shipment \in {event.shipment} \cap {s \in DOMAIN customerOf :
        enabled /\ event.type \in Milestones /\ customerOf[s] \in reachable}}

\* Handling a sequence of events: what the customer is sent, one call after the
\* other, of which those the provider fails are lost.
Notified(handled, customerOf, reachable, enabled, fails) ==
  [i \in {j \in DOMAIN handled : Notification(handled[j], customerOf, reachable, enabled) # {}} \ fails |->
     Notification(handled[i], customerOf, reachable, enabled)]
=============================================================================
