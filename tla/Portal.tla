------------------------------- MODULE Portal -------------------------------
(***************************************************************************)
(* Reading the book: the forwarder's pages, map and exceptions             *)
(* (shipments.controller.ts), the customer's view of the cargo shared with *)
(* it (portal/), and the link of a party to a customer's tenant that       *)
(* shares it (parties.controller.ts).                                      *)
(*                                                                         *)
(* A shipment is [id, tenant, customer, at, status, lane, consignment]: at *)
(* is when its row was created, to the precision the database keeps, of    *)
(* which PerMs make a millisecond, all that a cursor can say.  Ids are     *)
(* numbers, in the order the database compares them.                       *)
(***************************************************************************)
EXTENDS Integers, Sequences, FiniteSets, FiniteSetsExt

CONSTANTS
  PerMs,     \* database ticks in a millisecond, at least one
  Nothing,   \* no tenant linked, no status asked for, no consignment
  FeeRows,   \* the charges a page of platform fees reads, 500
  LaneRows,  \* the corridors the network page shows, 20
  HealthyLag \* how far behind a consumer may be, a minute

Settled == {"DELIVERED", "CANCELLED"}

-----------------------------------------------------------------------------
(* One page, newest first, of the rows a filter leaves.                    *)

\* r comes before s.
Before(r, s) == r.at > s.at \/ (r.at = s.at /\ r.id > s.id)

\* A request has a cursor, or none.  A date holds whole milliseconds:
\* that is what a row says of itself to a cursor.
NoCursor == <<>>
CursorOf(row) == <<[at |-> (row.at \div PerMs) * PerMs, id |-> row.id]>>

\* The page of at most limit rows after the cursor, and the cursor of the next
\* one when there is a row more.
Page(rows, cursor, limit) ==
  LET window == {r \in rows : cursor = NoCursor \/ Before(cursor[1], r)}
      page == {r \in window : Cardinality({s \in window : Before(s, r)}) < limit}
  IN [rows |-> page, total |-> Cardinality(rows),
      next |-> IF window = page THEN NoCursor
               ELSE CursorOf(CHOOSE r \in page : \A s \in page : s = r \/ Before(s, r))]

\* parseLimit: anything but a whole number in range is refused, not clamped.
DefaultLimit == 50
MaxLimit == 200
ParseLimit(raw) ==
  IF raw = Nothing THEN DefaultLimit ELSE IF raw \in 1 .. MaxLimit THEN raw ELSE Nothing

-----------------------------------------------------------------------------
(* The forwarder's screens.                                                *)

WithStatus(rows, status) == {r \in rows : status = Nothing \/ r.status = status}

Shipments(book, tenant, status, cursor, limit) ==
  Page(WithStatus({s \in book : s.tenant = tenant}, status), cursor, limit)

\* The corridor map: by lane, the freight in motion and its open exceptions.
Corridors(book, open, tenant) ==
  LET moving == {s \in book : s.tenant = tenant /\ s.status \notin Settled}
  IN {[lane |-> lane,
       n |-> Cardinality({s \in moving : s.lane = lane}),
       exceptions |-> Cardinality({x \in open : \E s \in moving : s.lane = lane /\ x.shipment = s.id})] :
      lane \in {s.lane : s \in moving}}

\* An exception is shown by the company it names, with its shipment's status.
OpenExceptions(book, open, tenant) ==
  {[exception |-> p[1], status |-> p[2].status] :
     p \in {q \in open \X book : q[1].shipment = q[2].id /\ q[1].tenant = tenant}}

\* The timeline of the forwarder: every event it wrote of the shipment.
Timeline(log, shipment, tenant) == {e \in log : e.shipment = shipment /\ e.tenant = tenant}

-----------------------------------------------------------------------------
(* What a party's customer is shown.                                       *)

\* The link, null to revoke: refused for a party of another company, or a
\* tenant that is no customer.
Link(parties, types, company, party, customer) ==
  IF /\ \E p \in parties : p.id = party /\ p.tenant = company
     /\ customer # Nothing => customer \in DOMAIN types /\ types[customer] = "CUSTOMER"
  THEN {IF p.id = party THEN [p EXCEPT !.customer = customer] ELSE p : p \in parties}
  ELSE parties

\* The parties, of any company, that point at this customer.
Scope(parties, tenant) == {p.id : p \in {q \in parties : q.customer = tenant}}

Admitted(types, tenant) == tenant \in DOMAIN types /\ types[tenant] = "CUSTOMER"

Shared(book, parties, tenant) == {s \in book : s.customer \in Scope(parties, tenant)}

PortalShipments(book, parties, tenant, status, cursor, limit) ==
  Page(WithStatus(Shared(book, parties, tenant), status), cursor, limit)

\* One shipment with the goods its customer declared; not there and not shared
\* are answered alike.
PortalShipment(book, parties, goods, tenant, id) ==
  LET mine == {s \in Shared(book, parties, tenant) : s.id = id}
  IN {[shipment |-> s, consignment |-> {g \in goods : g.id = s.consignment}] : s \in mine}

\* The first of its events by when they happened, the money among them left out
\* afterwards.
Hidden == {"charge.accrued", "quote.issued"}

Earliest(events, n) ==
  {e \in events : Cardinality({f \in events : f.occurred < e.occurred}) < n}

PortalTimeline(book, parties, log, tenant, id, cap) ==
  IF \E s \in Shared(book, parties, tenant) : s.id = id
  THEN {e \in Earliest({e \in log : e.shipment = id}, cap) : e.type \notin Hidden}
  ELSE {}

PortalInvoices(invoices, parties, tenant) ==
  {i \in invoices : i.customer \in Scope(parties, tenant)}

-----------------------------------------------------------------------------
(* A reader going from page to page while shipments are booked.            *)

\* What has been served after n pages, where arrived[k] are the rows booked
\* before page k.
Read(rows, arrived, limit, n) ==
  LET Known(k) == rows \cup UNION {arrived[j] : j \in 1 .. k}
      Step[k \in 0 .. n] ==
        IF k = 0 THEN [served |-> {}, twice |-> {}, next |-> NoCursor, done |-> FALSE]
        ELSE LET before == Step[k - 1]
                 page == Page(Known(k), before.next, limit)
             IN IF before.done THEN before
                ELSE [served |-> before.served \cup page.rows,
                      twice  |-> before.twice \cup (before.served \cap page.rows),
                      next   |-> page.next, done |-> page.next = NoCursor]
  IN Step[n]

(***************************************************************************)
(* The figures the operator and its partners read: platform fees           *)
(* (billing.controller.ts), partners and network (tenants.controller.ts)   *)
(* and the system monitor (system.controller.ts).  All are sums and counts *)
(* of rows; a charge is [id, tenant, kind, currency, sell, at].            *)
(***************************************************************************)
ByCurrency(rows) ==
  [cur \in {c.currency : c \in rows} |->
     MapThenSumSet(LAMBDA c : c.sell, {c \in rows : c.currency = cur})]

\* How many rows there are with each value of a column.
CountBy(rows, Column(_)) ==
  [v \in {Column(r) : r \in rows} |-> Cardinality({r \in rows : Column(r) = v})]

Fees(charges, tenants) == {c \in charges : c.tenant \in tenants /\ c.kind = "FEE"}

\* A tenant's own page adds up the newest of its fees.
PlatformFees(charges, tenant) ==
  LET mine == Fees(charges, {tenant})
      rows == {c \in mine : Cardinality({d \in mine : d.at > c.at \/ (d.at = c.at /\ d.id > c.id)}) < FeeRows}
  IN [charges |-> rows, totals |-> ByCurrency(rows)]

\* The operator's page of its partners.
Partners(tenants, shipments, charges) ==
  {[id |-> t.id, rate |-> t.rate,
    shipments |-> Cardinality({s \in shipments : s.tenant = t.id}),
    revenue |-> ByCurrency(Fees(charges, {t.id}))] :
     t \in {u \in tenants : u.type = "PARTNER_AGENT"}}

\* A fee rate is set on whatever tenant is named; a partner starts with one.
SetFeeRate(tenants, id, rate) == {IF t.id = id THEN [t EXCEPT !.rate = rate] ELSE t : t \in tenants}
CreatePartner(tenants, id, rate) == tenants \cup {[id |-> id, type |-> "PARTNER_AGENT", rate |-> rate]}

\* Everybody's trade, by lane, busiest first.
Network(tenants, shipments, charges) ==
  LET lanes == CountBy(shipments, LAMBDA s : s.lane)
      shown == CHOOSE S \in kSubset(Min({LaneRows, Cardinality(DOMAIN lanes)}), DOMAIN lanes) :
                 \A l \in S, m \in DOMAIN lanes \ S : lanes[l] >= lanes[m]
  IN [types |-> CountBy(tenants, LAMBDA t : t.type),
      shipments |-> Cardinality(shipments),
      lanes |-> [l \in shown |-> lanes[l]],
      statuses |-> CountBy(shipments, LAMBDA s : s.status),
      revenue |-> ByCurrency(Fees(charges, {t.id : t \in tenants}))]

-----------------------------------------------------------------------------
(* The monitor.                                                            *)

KnownConsumers == {"lifecycle-projector", "billing-accrual", "ledger-sink", "workflow-signaler"}

\* offsets: the time of the last event each consumer that has any row handled.
Healthy(offsets, consumer, now) ==
  consumer \in DOMAIN offsets => now - offsets[consumer] < HealthyLag

\* A tenant's own rows, and for the operator the state of the platform.
Monitor(tenant, type, log, open, shipments, offsets, now) ==
  LET mine == {e \in log : e.tenant = tenant}
  IN [total |-> Cardinality(mine),
      unpublished |-> Cardinality({e \in mine : ~e.published}),
      exceptions |-> CountBy({x \in open : x.tenant = tenant}, LAMBDA x : x.code),
      statuses |-> CountBy({s \in shipments : s.tenant = tenant}, LAMBDA s : s.status),
      unhealthy |-> IF type = "OPERATOR"
                    THEN {c \in KnownConsumers : ~Healthy(offsets, c, now)} ELSE {}]
=============================================================================
