------------------------------- MODULE Adapters -------------------------------
(****************************************************************************)
(* The tracking adapters (modules/ingest/*.adapter.ts, edifact.ts): what    *)
(* each makes of one message from outside.  They touch nothing: an emission *)
(* names an event type, the reference it is idempotent on, how its shipment *)
(* is found, and a payload.  When a thing happened is left out, but for the *)
(* minute an AIS position is filed under.                                   *)
(****************************************************************************)
EXTENDS Catalogue, Naturals, SequencesExt

Emission(type, ref, match, payload) ==
  [type |-> type, ref |-> ref, match |-> match, payload |-> payload]

ByContainer(unit) == <<"containerNumber", unit>>
ByBooking(booking) == <<"carrierBookingRef", booking>>
ByVessel(imo) == <<"vesselImo", imo>>
ByDevice(device) == <<"traccarDevice", device>>

-----------------------------------------------------------------------------
(* DCSA track and trace: an item is actual or not, and either a transport   *)
(* event of a vessel, with or without a booking, or one of a container.     *)

VesselType == "DEPA" :> "vessel.departed" @@ "ARRI" :> "vessel.arrived"

ContainerType ==
  "GTIN" :> "container.gated_in" @@ "LOAD" :> "container.loaded"
  @@ "DISC" :> "container.discharged" @@ "GTOT" :> "container.gated_out"

DcsaTransport(e) ==
  LET call == [vesselImo |-> e.imo, port |-> e.place, source |-> "DCSA"]
  IN Emission(VesselType[e.code], <<"dcsa", e.id>>,
       IF e.booking # Null THEN ByBooking(e.booking) ELSE ByVessel(e.imo),
       IF e.code = "DEPA"
         THEN [vesselName |-> Null, etaDestination |-> Null] @@ call ELSE call)

DcsaEquipment(e) ==
  LET move == [containerNumber |-> e.unit, location |-> e.place, source |-> "DCSA"]
  IN Emission(ContainerType[e.code], <<"dcsa", e.id>>, ByContainer(e.unit),
       CASE e.code = "LOAD" -> [vesselImo |-> Null] @@ move
         [] e.code = "GTOT" -> [truckerId |-> Null] @@ move
         [] OTHER -> move)

\* The items that become history: what happened, to something that is named.
Dcsa(items) ==
  LET facts == SelectSeq(items, LAMBDA e :
                 e.actual /\ (e.code \in DOMAIN VesselType => e.imo # Null))
  IN [i \in DOMAIN facts |->
        IF facts[i].code \in DOMAIN VesselType
          THEN DcsaTransport(facts[i]) ELSE DcsaEquipment(facts[i])]

-----------------------------------------------------------------------------
(* EDIFACT: an interchange as text is a sequence of characters, of which    *)
(* these separate: ' ends a segment, + an element, : a component, and ?     *)
(* takes the next character for what it is.                                 *)

Release == "?"

\* One pass over a text: what stands between separators, in order.
SplitOn(text, separator, keepRelease) ==
  LET step(s, ch) ==
        CASE s.released -> [s EXCEPT !.cur = Append(@, ch), !.released = FALSE]
          [] ~s.released /\ ch = Release ->
               [s EXCEPT !.cur = IF keepRelease THEN Append(@, ch) ELSE @, !.released = TRUE]
          [] ~s.released /\ ch = separator ->
               [s EXCEPT !.out = Append(@, s.cur), !.cur = <<>>]
          [] OTHER -> [s EXCEPT !.cur = Append(@, ch)]
      end == FoldLeft(step, [out |-> <<>>, cur |-> <<>>, released |-> FALSE], text)
  IN Append(end.out, end.cur)

\* The first splits keep the release characters for the last.
ParseSegments(raw) ==
  LET chunks == SelectSeq(SplitOn(raw, "'", TRUE), LAMBDA chunk : chunk # <<>>)
      segment(chunk) ==
        LET parts == SplitOn(chunk, "+", TRUE)
        IN [tag |-> Head(parts),
            elements |-> [i \in 1 .. Len(parts) - 1 |-> SplitOn(parts[i + 1], ":", FALSE)]]
  IN [i \in DOMAIN chunks |-> segment(chunks[i])]

\* Component c of element e of a segment, both counted from one.
Component(segment, e, c) ==
  IF e \in DOMAIN segment.elements /\ c \in DOMAIN segment.elements[e]
    THEN segment.elements[e][c] ELSE Null

FirstOf(a, b) == IF a # Null THEN a ELSE b

\* The statuses of an IFTSTA interchange.  What a segment says holds until one
\* like it says otherwise, across messages too; the last status of `out` is the
\* one that is still open.
ExtractIftsta(segments) ==
  LET status(s, seg) ==
        [messageRef |-> s.messageRef, consignmentRef |-> s.consignmentRef,
         containerNumber |-> s.containerNumber,
         statusCode |-> FirstOf(Component(seg, 2, 1), Component(seg, 1, 1)),
         location |-> Null]
      step(s, seg) ==
        CASE seg.tag = "UNH" -> [s EXCEPT !.messageRef = FirstOf(Component(seg, 1, 1), "")]
          [] seg.tag = "CNI" -> [s EXCEPT !.consignmentRef = Component(seg, 2, 1)]
          [] seg.tag = "EQD" -> [s EXCEPT !.containerNumber = Component(seg, 2, 1)]
          [] seg.tag = "STS" -> [s EXCEPT !.out = Append(@, status(s, seg))]
          [] seg.tag = "LOC" /\ s.out # <<>> ->
               [s EXCEPT !.out[Len(s.out)].location = Component(seg, 2, 1)]
          [] OTHER -> s
  IN FoldLeft(step, [out |-> <<>>, messageRef |-> "", consignmentRef |-> Null,
                     containerNumber |-> Null], segments).out

UnknownPlace == "ZZZZZ"
UnknownImo == "0000000"

\* One status under its partner's code map; i is its place in the interchange.
EdifactEmission(partner, type, status, i) ==
  LET ref == <<"edifact", partner, status.messageRef, i>>
      place == FirstOf(status.location, UnknownPlace)
      call == [vesselImo |-> UnknownImo, port |-> place, source |-> "EDIFACT"]
      move == [containerNumber |-> status.containerNumber, location |-> place,
               source |-> "EDIFACT"]
  IN CASE type = "vessel.departed" ->
            Emission(type, ref, ByBooking(status.consignmentRef),
                     [vesselName |-> Null, etaDestination |-> Null] @@ call)
       [] type = "vessel.arrived" -> Emission(type, ref, ByBooking(status.consignmentRef), call)
       [] type = "container.gated_out" ->
            Emission(type, ref, ByContainer(status.containerNumber), [truckerId |-> Null] @@ move)
       [] OTHER -> Emission(type, ref, ByContainer(status.containerNumber), move)

\* Codes the partner's map does not have, and statuses that name nothing to find
\* a shipment by, are passed over.
Edifact(partner, statusMap, segments) ==
  LET statuses == ExtractIftsta(segments)
      typeOf(s) == statusMap[s.statusCode]
      named(s) == IF typeOf(s) \in {"vessel.departed", "vessel.arrived"}
                    THEN s.consignmentRef # Null ELSE s.containerNumber # Null
      used == SelectSeq([i \in DOMAIN statuses |-> i],
                LAMBDA i : statuses[i].statusCode \in DOMAIN statusMap /\ named(statuses[i]))
  IN [n \in DOMAIN used |->
        EdifactEmission(partner, typeOf(statuses[used[n]]), statuses[used[n]], used[n])]

-----------------------------------------------------------------------------
(* Positions.  Ingest fills in the leg.                                     *)

Traccar(hook) ==
  <<Emission("road.position_reported", <<"traccar", hook.id>>, ByDevice(hook.device),
      [legId |-> Null, lat |-> hook.lat, lon |-> hook.lon, speedKph |-> hook.speed,
       deviceId |-> hook.device])>>

\* AIS is keyed by MMSI: the vessel is known once its static data has been heard.
LearnImo(imoOf, message) ==
  IF message.kind = "ShipStaticData" THEN message.mmsi :> message.imo @@ imoOf ELSE imoOf

Ais(imoOf, tracked, message) ==
  IF /\ message.kind = "PositionReport"
     /\ message.mmsi \in DOMAIN imoOf
     /\ imoOf[message.mmsi] \in tracked
    THEN LET imo == imoOf[message.mmsi]
         IN <<Emission("vessel.position_reported", <<"ais", message.mmsi, message.minute>>,
                ByVessel(imo),
                [legId |-> Null, vesselImo |-> imo, lat |-> message.lat, lon |-> message.lon,
                 speedKnots |-> message.speed,
                 heading |-> message.heading])>>
    ELSE <<>>
=============================================================================
