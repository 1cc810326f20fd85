------------------------------- MODULE Schema -------------------------------
(***************************************************************************)
(* The tables of packages/db/src/schema.ts as the database enforces them:  *)
(* which row a row must or may point at, what goes when the row it points  *)
(* at goes, which columns no two rows share and for which rows, and what a *)
(* new row says of itself.  Columns that none of this depends on are left  *)
(* out, and so are the indexes that only make a query fast.                *)
(***************************************************************************)
EXTENDS Naturals, FiniteSets

CONSTANT Null   \* a column without a value

\* What a row points at: it may, it must, or it must and goes with it.
May(column, table)  == [column |-> column, to |-> table, needed |-> FALSE, cascade |-> FALSE]
Must(column, table) == [column |-> column, to |-> table, needed |-> TRUE, cascade |-> FALSE]
Part(column, table) == [column |-> column, to |-> table, needed |-> TRUE, cascade |-> TRUE]
Tenant              == Must("tenant_id", "tenants")

\* Columns no two rows agree on; "when" names the column that must be there
\* (or, negated, absent) for the index to hold of a row.
Always == "always"
Unique(columns)        == [columns |-> columns, when |-> Always]
UniqueWhen(columns, c) == [columns |-> columns, when |-> c]

\* One table: its references, its unique columns besides the id, its defaults.
Table(refs, unique, born) == [refs |-> refs, unique |-> unique, born |-> born]
None == [none |-> TRUE]   \* no column with a default of its own

-----------------------------------------------------------------------------
(* The enumerated types.                                                   *)

TenantType       == {"OPERATOR", "PARTNER_AGENT", "CUSTOMER"}
PartyRole        == {"SHIPPER", "CONSIGNEE", "NOTIFY", "CARRIER", "AGENT", "TRUCKER"}
ScreeningStatus  == {"UNSCREENED", "CLEAR", "REVIEW", "HIT"}
TransportMode    == {"OCEAN", "AIR", "ROAD", "RAIL"}
ContainerType    == {"20GP", "40GP", "40HC", "45HC", "20RF", "40RF", "LCL"}
SurchargeBasis   == {"PER_CONTAINER", "PER_SHIPMENT", "PER_BL", "PERCENT_OF_FREIGHT"}
PackageType      == {"PALLET", "CARTON", "CRATE", "DRUM", "BAG", "BALE", "ROLL", "IBC",
                     "BULK", "LOOSE"}
CargoType        == {"GENERAL", "HAZARDOUS", "REEFER", "PERISHABLE", "OVERSIZED",
                     "VALUABLE", "LIVE_ANIMALS"}
Urgency          == {"ECONOMY", "STANDARD", "EXPRESS", "CRITICAL"}
QuoteStatus      == {"DRAFT", "ISSUED", "ACCEPTED", "EXPIRED", "DECLINED"}
ShipmentStatus   == {"BOOKED", "IN_TRANSIT", "AT_DESTINATION_PORT", "CUSTOMS",
                     "ON_DELIVERY", "DELIVERED", "CANCELLED"}
ExceptionCode    == {"BOOKING_ROLLED", "CUSTOMS_STOP", "CUSTOMS_QUERY",
                     "CONGESTION_DELAY", "COMPLIANCE_HOLD"}
ReviewStatus     == {"PENDING_EXTRACTION", "PENDING_REVIEW", "APPROVED", "REJECTED"}
EntryStatus      == {"DRAFT", "PREPARED", "SUBMITTED", "QUERY", "RELEASED", "STOPPED"}
ChargeKind       == {"FREIGHT", "SURCHARGE", "DISBURSEMENT", "FEE"}
ChargeCategory   == {"ORIGIN", "FREIGHT", "FUEL_SURCHARGE", "DESTINATION", "CUSTOMS",
                     "DUTY_TAX", "DOCUMENTATION", "DEMURRAGE_DETENTION", "INSURANCE",
                     "PLATFORM_FEE", "OTHER"}
ChargeProvenance == {"PASS_THROUGH", "MARKED_UP", "FORWARDER_ORIGINATED"}
ChargeBasis      == {"PER_SHIPMENT", "PER_CONTAINER", "PER_KG", "PER_CBM", "PER_DOCUMENT",
                     "PER_DAY", "PERCENTAGE"}
InvoiceStatus    == {"ISSUED", "PART_PAID", "PAID", "OVERDUE", "CANCELLED"}
InvoiceType      == {"FREIGHT_INVOICE", "CREDIT_NOTE", "PROFORMA"}
FindingSeverity  == {"INFO", "WARN", "CRITICAL"}
FindingStatus    == {"OPEN", "ACCEPTED", "DISPUTED", "RESOLVED"}
FilingStatus     == {"DRAFT", "QUEUED", "SUBMITTED", "ACKNOWLEDGED", "QUERIED",
                     "ACCEPTED", "REJECTED"}

-----------------------------------------------------------------------------
(* The tables.                                                             *)

tenants == Table({}, {}, None)

parties ==
  Table({Tenant, May("customer_tenant_id", "tenants")}, {},
        [screening_status |-> "UNSCREENED"])

shipmentParties ==
  Table({Must("shipment_id", "shipments"), Must("party_id", "parties")},
        {Unique({"shipment_id", "party_id", "role"})}, None)

rateCards      == Table({Tenant, May("carrier_id", "parties")}, {}, [currency |-> "USD"])
rateSurcharges == Table({Part("rate_card_id", "rate_cards")}, {}, None)
marginRules    == Table({Tenant, May("customer_id", "parties")}, {}, [min_margin_cents |-> 0])

consignments ==
  Table({Tenant}, {}, [cargo_type |-> "GENERAL", urgency |-> "STANDARD", pieces |-> 0,
                       gross_weight_grams |-> 0, chargeable_weight_grams |-> 0])

cargoItems == Table({Part("consignment_id", "consignments")}, {}, [pieces |-> 1])

quotes ==
  Table({Tenant, Must("customer_id", "parties"), May("consignment_id", "consignments")}, {},
        [status |-> "DRAFT", container_quantity |-> 1])

quoteLines == Table({Part("quote_id", "quotes")}, {}, [quantity |-> 1])

bookings ==
  Table({Tenant, May("quote_id", "quotes"), Must("customer_id", "parties")}, {}, None)

shipments ==
  Table({Tenant, Must("booking_id", "bookings"), May("consignment_id", "consignments")},
        {Unique({"reference"})}, [status |-> "BOOKED"])

legs       == Table({Part("shipment_id", "shipments"), May("trucker_id", "parties")}, {}, None)
containers == Table({Part("shipment_id", "shipments")}, {}, None)

shipmentExceptions == Table({Tenant, Must("shipment_id", "shipments")}, {}, None)
consumerOffsets    == Table({}, {Unique({"consumer"})}, None)

documents ==
  Table({Tenant, May("shipment_id", "shipments")}, {}, [review_status |-> "PENDING_EXTRACTION"])

customsEntries ==
  Table({Tenant, Must("shipment_id", "shipments")}, {}, [status |-> "DRAFT", currency |-> "ZAR"])

customsEntryLines ==
  Table({Part("customs_entry_id", "customs_entries")}, {},
        [currency |-> "ZAR", human_confirmed |-> FALSE])

\* A charge names its invoice in a column that is no foreign key.
charges ==
  Table({Tenant, Must("shipment_id", "shipments"), May("vendor_party_id", "parties")}, {},
        [category |-> "OTHER", provenance |-> "FORWARDER_ORIGINATED", basis |-> "PER_SHIPMENT",
         quantity |-> 1, vat_bps |-> 0, disputed |-> FALSE])

\* An invoice's number is gapless by the profile's counter, unique by no index.
invoices ==
  Table({Tenant, Must("customer_id", "parties"), May("shipment_id", "shipments")}, {},
        [status |-> "ISSUED", type |-> "FREIGHT_INVOICE", subtotal_cents |-> 0, vat_cents |-> 0,
         disbursement_cents |-> 0, payment_terms_days |-> 30])

tenantBillingProfiles ==
  Table({Part("tenant_id", "tenants")}, {Unique({"tenant_id"})},
        [next_invoice_number |-> 1, invoice_number_prefix |-> "INV", country |-> "ZA",
         default_payment_terms_days |-> 30, default_currency |-> "ZAR", vat_bps |-> 1500])

chargeCodeAliases ==
  Table({Tenant, May("vendor_party_id", "parties")}, {Unique({"tenant_id", "alias"})}, None)

\* Two indexes: no two rows without a charge are alike in the first.
invoiceExceptions ==
  Table({Tenant, Part("invoice_id", "invoices"),
         [May("charge_id", "charges") EXCEPT !.cascade = TRUE]},
        {UniqueWhen({"invoice_id", "code", "charge_id"}, "charge_id"),
         UniqueWhen({"invoice_id", "code"}, "no charge_id")},
        [status |-> "OPEN"])

fuelIndexQuotes == Table({}, {Unique({"index_code", "quoted_for"})}, None)

complianceFilings ==
  Table({Tenant, May("shipment_id", "shipments")},
        {UniqueWhen({"tenant_id", "kind", "submission_ref"}, "submission_ref")},
        [authority |-> "SARS", status |-> "DRAFT"])

payments ==
  Table({Tenant, Part("invoice_id", "invoices")},
        {Unique({"invoice_id", "payment_ref"})}, None)

ledgerEvents == Table({}, {Unique({"ledger_event_id"}), Unique({"source_event_id", "type"})}, None)

events ==
  Table({}, {Unique({"event_id"}), UniqueWhen({"type", "source_ref"}, "source_ref")}, None)

Db ==
  [tenants |-> tenants, parties |-> parties, shipment_parties |-> shipmentParties,
   rate_cards |-> rateCards, rate_surcharges |-> rateSurcharges, margin_rules |-> marginRules,
   consignments |-> consignments, cargo_items |-> cargoItems, quotes |-> quotes,
   quote_lines |-> quoteLines, bookings |-> bookings, shipments |-> shipments, legs |-> legs,
   containers |-> containers, shipment_exceptions |-> shipmentExceptions,
   consumer_offsets |-> consumerOffsets, documents |-> documents,
   customs_entries |-> customsEntries, customs_entry_lines |-> customsEntryLines,
   charges |-> charges, invoices |-> invoices,
   tenant_billing_profiles |-> tenantBillingProfiles, charge_code_aliases |-> chargeCodeAliases,
   invoice_exceptions |-> invoiceExceptions, fuel_index_quotes |-> fuelIndexQuotes,
   compliance_filings |-> complianceFilings, payments |-> payments,
   ledger_events |-> ledgerEvents, events |-> events]

-----------------------------------------------------------------------------
(* What the code asks of the tables.                                       *)

\* An insert that names the columns it may collide on: the database runs it
\* only if an index is unique on exactly those, for every row or for those
\* the statement's own predicate picks out.
Collision(table, columns, when) == [table |-> table, columns |-> columns, when |-> when]

Collisions ==
  {Collision("consumer_offsets", {"consumer"}, Always),
   Collision("invoice_exceptions", {"invoice_id", "code", "charge_id"}, "charge_id"),
   Collision("invoice_exceptions", {"invoice_id", "code"}, "no charge_id"),
   Collision("payments", {"invoice_id", "payment_ref"}, Always),
   Collision("charge_code_aliases", {"tenant_id", "alias"}, Always),
   Collision("fuel_index_quotes", {"index_code", "quoted_for"}, Always)}

FilingCollision == Collision("compliance_filings", {"tenant_id", "kind", "submission_ref"}, Always)

Inferred(c) ==
  \E u \in Db[c.table].unique : u.columns = c.columns /\ u.when \in {Always, c.when}

\* The rows an index is about, and two rows the database refuses to hold both:
\* a column without a value is equal to nothing.
Covers(u, row) ==
  CASE u.when = Always         -> TRUE
    [] u.when = "no charge_id" -> row["charge_id"] = Null
    [] OTHER                   -> row[u.when] # Null

Clash(table, row, other) ==
  \E u \in Db[table].unique :
    Covers(u, row) /\ Covers(u, other) /\ \A c \in u.columns : row[c] = other[c] /\ row[c] # Null

\* The tables the code deletes rows of.
Deleted == {"rate_cards", "rate_surcharges", "margin_rules"}

Referring(table) == {t \in DOMAIN Db : \E r \in Db[t].refs : r.to = table}

\* No row in another table can forbid a delete of this one.
Erasable(table) == \A t \in DOMAIN Db : \A r \in Db[t].refs : r.to = table => r.cascade

\* The tables whose every row leads to its company in so many steps.
Anchored[n \in Nat] ==
  IF n = 0 THEN {"tenants"}
  ELSE LET nearer == Anchored[n - 1]
       IN nearer \cup {t \in DOMAIN Db : \E r \in Db[t].refs : r.needed /\ r.to \in nearer}

\* Two ways from a row to a company, and nothing in the tables to make them one.
Crossings ==
  {t \in DOMAIN Db : Tenant \in Db[t].refs
     /\ \E r \in Db[t].refs \ {Tenant} : r.to \in Anchored[Cardinality(DOMAIN Db)]}
=============================================================================
