------------------------------ MODULE Catalogue ------------------------------
(*****************************************************************************)
(* packages/events: the catalogue of event types and the check makeEvent     *)
(* and parseEvent put a payload through.                                     *)
(*                                                                           *)
(* A payload is a record of the fields a test of it looks at.  A value that  *)
(* breaks the format of its field is Malformed, an absent optional one Null; *)
(* the catalogue's formats themselves are left out.                          *)
(*****************************************************************************)
EXTENDS TLC, FiniteSets

Null == "null"
Malformed == "malformed"

\* A definition: its fields, those that may be null, the values of `source` it
\* allows, whether the event crosses the ontology bridge.
Fact(fields, nullable) ==
  [fields |-> fields, nullable |-> nullable, sources |-> {}, financial |-> FALSE]

Milestone(fields, nullable, sources) ==
  [fields |-> fields \cup {"source"}, nullable |-> nullable,
   sources |-> sources, financial |-> FALSE]

Financial(definition) == [definition EXCEPT !.financial = TRUE]

Carrier == {"DCSA", "EDIFACT", "MANUAL"}

QuoteAndBooking ==
  "quote.issued" :>
    Fact({"quoteId", "customerId", "origin", "destination", "mode", "containerType",
          "incoterm", "validUntil", "lines", "totalSell"}, {"containerType"})
  @@ "quote.accepted" :> Fact({"quoteId", "customerId"}, {})
  @@ "shipment.booked" :>
       Financial(Fact({"bookingId", "quoteId", "customerId", "origin", "destination",
                       "mode", "incoterm", "containers", "carrierBookingRef"},
                      {"quoteId", "carrierBookingRef"}))
  @@ "carrier.confirmation_requested" :>
       Fact({"bookingId", "attempt", "unconfirmedHours"}, {})
  @@ "booking.rolled" :>
       Fact({"bookingId", "previousVesselImo", "newVesselImo", "newEtd", "reason"},
            {"previousVesselImo", "newVesselImo", "newEtd", "reason"})

Journey ==
  "container.gated_in" :> Milestone({"containerNumber", "location"}, {}, Carrier)
  @@ "container.loaded" :>
       Milestone({"containerNumber", "vesselImo", "location"}, {"vesselImo"}, Carrier)
  @@ "vessel.departed" :>
       Financial(Milestone({"vesselImo", "vesselName", "port", "etaDestination"},
                           {"vesselName", "etaDestination"}, Carrier \cup {"AIS"}))
  @@ "vessel.arrived" :> Milestone({"vesselImo", "port"}, {}, Carrier \cup {"AIS"})
  @@ "container.discharged" :> Milestone({"containerNumber", "location"}, {}, Carrier)
  @@ "container.gated_out" :>
       Milestone({"containerNumber", "location", "truckerId"}, {"truckerId"},
                 Carrier \cup {"TRACCAR"})
  @@ "road.position_reported" :>
       Fact({"legId", "lat", "lon", "speedKph", "deviceId"}, {"speedKph"})
  @@ "vessel.position_reported" :>
       Fact({"legId", "vesselImo", "lat", "lon", "speedKnots", "heading"},
            {"speedKnots", "heading"})
  @@ "pod.confirmed" :>
       Financial(Fact({"legId", "signedBy", "documentId"}, {"signedBy", "documentId"}))

ExceptionCodes == {"BOOKING_ROLLED", "CUSTOMS_STOP", "CUSTOMS_QUERY",
                   "CONGESTION_DELAY", "COMPLIANCE_HOLD"}

Exceptions ==
  [t \in {"shipment.exception_raised", "shipment.exception_cleared"} |->
     Fact({"code", "detail"}, {"detail"})]

Customs ==
  "entry.prepared" :> Fact({"customsEntryId", "hsLines"}, {})
  @@ "entry.submitted" :> Fact({"customsEntryId", "bureauRef"}, {})
  @@ "entry.queried" :> Fact({"customsEntryId", "queryText"}, {})
  @@ "entry.released" :>
       Financial(Fact({"customsEntryId", "dutiesTotal", "vatTotal", "releaseRef"},
                      {"releaseRef"}))
  @@ "entry.stopped" :> Fact({"customsEntryId", "reason"}, {"reason"})

Papers ==
  "document.uploaded" :> Fact({"documentId", "docType", "fileName", "storageKey"}, {})
  @@ "document.extracted" :>
       Fact({"documentId", "confidence", "reviewRequired", "extractedData"}, {})
  @@ "document.approved" :> Fact({"documentId", "reviewerId"}, {})
  @@ "party.screened" :> Fact({"partyId", "result", "matchScore", "listRefs"}, {"matchScore"})
  @@ "compliance.hold_placed" :> Fact({"partyId", "reason"}, {})

Billing ==
  "charge.accrued" :>
    Financial(Fact({"chargeId", "chargeCode", "description", "kind", "buy", "sell",
                    "triggeredBy"}, {"buy", "triggeredBy"}))
  @@ "invoice.issued" :>
       Financial(Fact({"invoiceId", "customerId", "total", "dueDate", "chargeIds"}, {}))
  @@ "payment.received" :> Financial(Fact({"invoiceId", "amount", "paymentRef"}, {}))

Events ==
  QuoteAndBooking @@ Journey @@ Exceptions @@ Customs @@ Papers @@ Billing

\* Fields whose schema takes any text, so that nothing in them is malformed.
FreeText == {"vesselName", "reason", "detail", "signedBy", "queryText", "bureauRef",
             "releaseRef", "description", "chargeCode", "paymentRef", "deviceId",
             "fileName", "storageKey", "reviewerId", "carrierBookingRef", "triggeredBy"}

\* The schema's parse: fields it does not know are dropped, not refused.
Conforms(type, payload) ==
  LET d == Events[type] IN
  /\ d.fields \subseteq DOMAIN payload
  /\ \A f \in d.fields :
       /\ payload[f] = Null => f \in d.nullable
       /\ payload[f] = Malformed => f \in FreeText
       /\ f = "source" => payload[f] \in d.sources

\* parseEvent: an envelope of a type the registry does not know is refused too.
Parses(e) == e.type \in DOMAIN Events /\ Conforms(e.type, e.payload)

\* What the financial flag says of a type.
IsFinancial(type) == Events[type].financial
=============================================================================
