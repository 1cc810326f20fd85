------------------------------- MODULE MCIngest -------------------------------
(***************************************************************************)
(* How events come to the log and leave it, each in behaviours of its own: *)
(* the outbox relay, and tracking ingest with a carrier's messages, one    *)
(* partner's interchanges, a truck and a vessel.                           *)
(***************************************************************************)
EXTENDS OutboxRelay, Tracking

CONSTANTS s1, s2   \* two shipments

VARIABLE part

mcVars == <<part, vars, trackingVars>>

\* The first and the last of three events belong to one shipment, the second to
\* another; the last two were recorded in the same millisecond.
MCKeyOf == <<s1, s2, s1>>
MCTimeOf == <<1, 2, 2>>

\* The first shipment has a booking, the other's container rides the same vessel
\* and then a truck.
MCCarries ==
  s1 :> {ByBooking("b1"), ByContainer("u1"), ByVessel("imo")}
  @@ s2 :> {ByContainer("u2"), ByVessel("imo"), ByDevice("truck")}

MCVessel(id, actual, code, booking) ==
  [id |-> id, actual |-> actual, code |-> code, imo |-> "imo", booking |-> booking,
   place |-> "ZADUR"]
MCBox(id, code, unit, place) ==
  [id |-> id, actual |-> TRUE, code |-> code, unit |-> unit, place |-> place]

MCSegment(tag, values) == [tag |-> tag, elements |-> [i \in DOMAIN values |-> <<values[i]>>]]

\* A status of one container, in message n of an interchange.
MCIftsta(n, unit, code) ==
  <<MCSegment("UNH", <<n>>), MCSegment("CNI", <<"1", "b1">>), MCSegment("EQD", <<"CN", unit>>),
    MCSegment("STS", <<"1", code>>), MCSegment("LOC", <<"5", "ZADUR">>)>>

MCStatusMap == "DEP" :> "vessel.departed" @@ "ARR" :> "vessel.arrived"
  @@ "GIN" :> "container.gated_in" @@ "GOUT" :> "container.gated_out"
  @@ "DIS" :> "container.discharged"

\* A partner numbers the messages of every interchange from one: the two gate-outs
\* share a reference.  One place is not a UN/LOCODE.
MCFeedOf ==
  "dcsa" :> Dcsa(<<MCVessel("e1", FALSE, "ARRI", "b1"), MCVessel("e2", TRUE, "DEPA", "b1"),
                   MCVessel("e3", TRUE, "ARRI", Null)>>)
  @@ "first" :> Edifact("p", MCStatusMap, MCIftsta("1", "u1", "GOUT"))
  @@ "second" :> Edifact("p", MCStatusMap, MCIftsta("1", "u2", "GOUT"))
  @@ "misspelt" :> Dcsa(<<MCBox("e4", "DISC", "u2", Malformed), MCBox("e5", "GTOT", "u2", "ZADUR")>>)

MCPosition(minute, lat) ==
  [kind |-> "PositionReport", mmsi |-> "m", minute |-> minute, lat |-> lat, lon |-> "east",
   speed |-> "fast", heading |-> Null]

\* A vessel makes itself known, and reports a position, or that it has none.
MCAisMessages ==
  {[kind |-> "ShipStaticData", mmsi |-> "m", imo |-> "imo"],
   MCPosition(1, "south"), MCPosition(2, Malformed)}

-----------------------------------------------------------------------------
(* What is checked of the adapters by evaluation.                           *)

\* Text, written with what separates
\* released, is read back as it was.
MCEscape(text) ==
  FoldLeft(LAMBDA out, ch : out \o (IF ch \in {"'", "+", ":", "?"} THEN <<"?", ch>> ELSE <<ch>>),
           <<>>, text)
MCJoin(parts, separator) ==
  FoldLeft(LAMBDA out, p : out \o <<separator>> \o p, Head(parts), Tail(parts))
MCWriteElement(e) == MCJoin([i \in DOMAIN e |-> MCEscape(e[i])], ":")
MCWrite(segment) ==
  MCJoin(<<segment.tag>> \o [i \in DOMAIN segment.elements |-> MCWriteElement(segment.elements[i])],
         "+") \o <<"'">>

MCTexts == {<<>>} \cup {<<ch>> : ch \in {"a", "'", "+", ":", "?"}} \cup {<<"a", "?">>, <<"?", "'">>}
MCElements == {<<t>> : t \in MCTexts} \cup {<<t, u>> : t, u \in MCTexts}
MCSegments == {[tag |-> <<"T">>, elements |-> <<e>>] : e \in MCElements}
  \cup {[tag |-> <<"T">>, elements |-> <<e, <<t>>>>] : e \in MCElements, t \in MCTexts}

ASSUME ReadsWhatIsWritten ==
  /\ \A s \in MCSegments : ParseSegments(MCWrite(s)) = <<s>>
  /\ \A s, t \in {x \in MCSegments : Len(x.elements) = 1} :
       ParseSegments(MCWrite(s) \o MCWrite(t)) = <<s, t>>

\* Messages that name their own consignment and container say in one interchange
\* what they say each in its own.
MCMessages == {MCIftsta(n, unit, code) : n \in {"1", "2"}, unit \in {"u1", "u2"}, code \in {"DEP", "GOUT"}}

ASSUME MessagesAreSeparate ==
  \A m, n \in MCMessages :
    ExtractIftsta(m \o n) = ExtractIftsta(m) \o ExtractIftsta(n)

\* Adapters make only what the catalogue takes of what is in its formats: all of
\* the carriers' types, and both kinds of position.
ASSUME EmissionsConform ==
  LET made ==
        {Dcsa(<<MCVessel("e", TRUE, code, "b1")>>) : code \in DOMAIN VesselType}
        \cup {Dcsa(<<MCBox("e", code, "u1", "ZADUR")>>) : code \in DOMAIN ContainerType}
        \cup {Edifact("p", MCStatusMap, MCIftsta("1", "u1", code)) : code \in DOMAIN MCStatusMap}
        \cup {Traccar([id |-> 1, device |-> "truck", lat |-> "south", lon |-> "east", speed |-> Null]),
              Ais("m" :> "imo", {"imo"}, MCPosition(1, "south"))}
  IN \A emissions \in made :
       Len(emissions) = 1 /\ Conforms(emissions[1].type, Payload(emissions[1]))

-----------------------------------------------------------------------------
MCInit ==
  /\ part \in {"relay", "carrier", "partner", "listener"}
  /\ Init /\ TrackingInit

\* The messages that arrive in a behaviour.
MCServed ==
  CASE part = "carrier" -> {"dcsa", "misspelt"}
    [] part = "partner" -> {"first", "second"}
    [] part = "listener" -> {"first"}
    [] OTHER -> {}

\* The one that makeEvent refuses, however often it is sent.
MCRefused == {"misspelt"}

ASSUME RefusedIsUnsound == MCRefused = {f \in Feeds : ~Sound(f)}

MCOnlyServed == \A h \in Handlers : call[h].feed \in MCServed \cup {NoFeed, AisFeed}

MCNext ==
  \/ part = "relay" /\ Next /\ UNCHANGED <<part, trackingVars>>
  \/ part \in {"carrier", "partner"} /\ UNCHANGED <<part, vars>>
       /\ WebhookNext /\ MCOnlyServed'
  \/ part = "listener" /\ UNCHANGED <<part, vars, stage>>
       /\ (WebhookNext \/ ListenerNext) /\ MCOnlyServed'

\* FairSpec's fairness; and for ingest, that a handler goes on, that a sender
\* tries again, and that the timers fire and a stopped process is replaced.
MCFairness ==
  /\ \A r \in Relays : WF_vars(part = "relay" /\ TickStep(r))
  /\ \A h \in Handlers : WF_trackingVars(part # "relay" /\ HandlerStep(h))
  /\ SF_trackingVars(\E h \in Handlers, f \in MCServed \ MCRefused : Deliver(h, f))
  /\ WF_trackingVars(part # "relay" /\ Connect)
  /\ SF_trackingVars(part # "relay" /\ Restart)

MCSpec == MCInit /\ [][MCNext]_mcVars /\ MCFairness

\* A message that failed half-way, or that the listener took down with the
\* process, is not refused for the half that is recorded: delivered again and
\* again it is answered.  And the listener is never left without a socket, a
\* timer or a successor.
IngestRecovers ==
  []<>(/\ MCServed \ MCRefused \subseteq Answered
       /\ part = "listener" => listener = "open")
=============================================================================
