--------------------------------- MODULE Api ---------------------------------
(***************************************************************************)
(* The routes the API serves, controller by controller, and what calls     *)
(* them: the web console from the server and from the browser, the agent's *)
(* tools, and the scheduler.  A route says which role it asks for, which   *)
(* kinds of tenant it turns away, and whose rows it reads or writes.       *)
(***************************************************************************)
EXTENDS Access, Naturals, TLC

\* Whose rows: the caller's own, those shared with the caller's company, every
\* company's, or none.
Own    == "own"
Shared == "shared"
Every  == "every"
NoRows == "none"

NoRole     == "any"
Commercial == TenantTypes \ {"CUSTOMER"}

Route(verb, paths, role, types, rows) ==
  [verb : {verb}, path : paths, role : {role}, types : {types}, rows : {rows}]

Reads(paths)              == Route("GET", paths, NoRole, TenantTypes, Own)
Writes(verb, paths, role) == Route(verb, paths, role, TenantTypes, Own)
For(types, routes)        == {[r EXCEPT !.types = types] : r \in routes}
Of(rows, routes)          == {[r EXCEPT !.rows = rows] : r \in routes}

-----------------------------------------------------------------------------
(* The controllers.                                                        *)

QuotingController ==
  Writes("POST", {"quotes"}, NoRole) \cup Reads({"quotes/:id", "quotes/:id/pdf"})

BookingsController == Writes("POST", {"quotes/:id/book"}, NoRole) \cup Reads({"shipments/:id"})

ShipmentsController ==
  Reads({"shipments", "ops/corridors", "shipments/:id/events", "ops/exceptions"})

\* A consignment's words and its measure are for anyone who signed in.
ConsignmentsController ==
  Of(NoRows, Reads({"consignments/reference"}) \cup Writes("POST", {"consignments/measure"}, NoRole))
  \cup For(Commercial,
         Reads({"consignments", "consignments/:id"})
         \cup Writes("POST", {"consignments"}, "ops") \cup Writes("PATCH", {"consignments/:id"}, "ops"))

RatesController ==
  For(Commercial,
    Reads({"rates/cards", "rates/cards/:id", "rates/margin-rules"})
    \cup Writes("POST", {"rates/cards", "rates/margin-rules"}, "admin")
    \cup Writes("PATCH", {"rates/cards/:id", "rates/margin-rules/:id"}, "admin")
    \cup Writes("PUT", {"rates/cards/:id/surcharges"}, "admin")
    \cup Writes("DELETE", {"rates/cards/:id", "rates/margin-rules/:id"}, "admin"))

\* The invoice desk: issuing, the company's own identity and spellings, charges.
InvoiceRoutes ==
  Writes("POST", {"shipments/:id/invoices", "billing/charge-code-aliases", "shipments/:id/charges"},
         "finance")
  \cup Writes("PATCH", {"billing/profile"}, "finance")
  \cup Of(NoRows, Reads({"billing/charge-codes"}))
  \cup Reads({"billing/profile", "billing/charge-code-aliases"})

\* The document, its audit, payments and what is owed.
AuditRoutes ==
  Reads({"invoices/:id/document", "invoices/:id/exceptions", "billing/exceptions",
         "invoices/:id/dispute-packet", "shipments/:id/charges", "invoices",
         "invoices/:id/payments", "finance/views", "billing/platform-fees"})
  \cup Writes("POST", {"invoices/:id/audit", "invoices/:id/payments"}, "finance")
  \cup Writes("PATCH", {"billing/exceptions/:id"}, "finance")

CustomsController ==
  Of(NoRows, Reads({"customs/classify"}))
  \cup Reads({"customs/entries", "customs/entries/by-shipment/:id", "customs/entries/:id",
              "customs/entries/:id/bureau-payload"})
  \cup Writes("POST", {"customs/entries", "customs/entries/:id/confirm-line",
                       "customs/entries/:id/prepare", "customs/entries/:id/submit",
                       "customs/entries/:id/outcome"}, NoRole)

DocumentsController ==
  Writes("POST", {"documents", "documents/:id/review"}, NoRole)
  \cup Reads({"documents/review-queue", "documents/:id"})

PartiesController ==
  Writes("POST", {"parties"}, NoRole) \cup Writes("POST", {"parties/:id/customer-tenant"}, "admin")
  \cup Reads({"parties", "parties/:id"})

PortalController ==
  For({"CUSTOMER"}, Of(Shared,
    Reads({"portal/shipments", "portal/shipments/:id", "portal/shipments/:id/events",
           "portal/invoices"})))

IntegrationsController ==
  Of(NoRows, Reads({"integrations"}))
  \cup Reads({"compliance/filings", "compliance/filings/:id"})
  \cup Writes("POST", {"shipments/:id/filings"}, "ops")

\* The partners, their fees and the network are the operator's.
TenantsController ==
  Reads({"tenants/me"})
  \cup For({"OPERATOR"}, Of(Every,
         Reads({"tenants/partners", "tenants/network"})
         \cup Writes("POST", {"tenants/partners"}, "admin")
         \cup Writes("PATCH", {"tenants/partners/:id/fee-rate"}, "admin")))

SystemController == For(Commercial, Reads({"system/monitor"}))

\* The routes of machines, behind a key of their own.
MachineRoutes ==
  Of(Every, Writes("POST", {"ingest/dcsa", "ingest/traccar", "ingest/rfq", "ingest/edifact",
                            "scheduled/sla-sweep", "scheduled/carrier-confirmation",
                            "scheduled/rescreen-parties"}, NoRole))

PeopleRoutes ==
  QuotingController \cup BookingsController \cup ShipmentsController \cup ConsignmentsController
  \cup RatesController \cup InvoiceRoutes \cup AuditRoutes \cup CustomsController
  \cup DocumentsController \cup PartiesController \cup PortalController \cup IntegrationsController
  \cup TenantsController \cup SystemController

-----------------------------------------------------------------------------
(* The callers.                                                            *)

Gets(paths)        == {"GET"} \X paths
Sends(verb, paths) == {verb} \X paths

\* lib/api.ts, called while a page is rendered.
PageCalls ==
  Gets({"quotes/:id", "shipments", "ops/corridors", "rates/cards", "consignments",
        "consignments/reference", "rates/margin-rules", "portal/shipments", "portal/shipments/:id",
        "portal/shipments/:id/events", "portal/invoices", "shipments/:id", "shipments/:id/events",
        "ops/exceptions", "parties", "parties/:id", "documents/review-queue", "documents/:id",
        "customs/classify", "customs/entries", "customs/entries/by-shipment/:id",
        "customs/entries/:id", "customs/entries/:id/bureau-payload", "shipments/:id/charges",
        "invoices", "finance/views", "invoices/:id/document", "invoices/:id/exceptions",
        "billing/exceptions", "invoices/:id/dispute-packet", "billing/profile",
        "billing/charge-codes", "integrations", "compliance/filings", "billing/platform-fees",
        "system/monitor", "tenants/me", "tenants/partners", "tenants/network"})
  \cup Sends("POST", {"quotes", "quotes/:id/book", "parties", "documents/:id/review", "documents",
        "customs/entries", "customs/entries/:id/confirm-line", "customs/entries/:id/prepare",
        "customs/entries/:id/submit", "customs/entries/:id/outcome", "shipments/:id/invoices",
        "invoices/:id/payments", "invoices/:id/audit", "tenants/partners"})
  \cup Sends("PATCH", {"tenants/partners/:id/fee-rate"})

\* lib/client-api.ts, called from the browser through the console's proxy.
BrowserCalls ==
  Gets({"parties", "customs/classify", "invoices/:id/payments", "finance/views",
        "invoices/:id/exceptions", "invoices/:id/dispute-packet", "consignments/reference",
        "consignments", "rates/cards", "rates/margin-rules"})
  \cup Sends("POST", {"quotes", "quotes/:id/book", "parties", "documents/:id/review", "documents",
        "customs/entries", "customs/entries/:id/confirm-line", "customs/entries/:id/prepare",
        "customs/entries/:id/submit", "customs/entries/:id/outcome", "shipments/:id/invoices",
        "invoices/:id/payments", "invoices/:id/audit", "tenants/partners", "consignments/measure",
        "rates/cards", "rates/margin-rules"})
  \cup Sends("PATCH", {"billing/exceptions/:id", "billing/profile", "tenants/partners/:id/fee-rate",
        "rates/cards/:id", "rates/margin-rules/:id"})
  \cup Sends("PUT", {"rates/cards/:id/surcharges"})
  \cup Sends("DELETE", {"rates/cards/:id", "rates/margin-rules/:id"})

\* services/freight-mcp: what an agent may ask.
Tools ==
  "get_shipment" :> "shipments/:id" @@ "list_shipments" :> "shipments"
  @@ "get_shipment_history" :> "shipments/:id/events" @@ "get_quote" :> "quotes/:id"
  @@ "get_customer" :> "parties/:id" @@ "get_rate_cards" :> "rates/cards"
  @@ "get_margin_rules" :> "rates/margin-rules" @@ "get_documents" :> "documents/review-queue"
  @@ "get_customs_entry" :> "customs/entries/by-shipment/:id"
  @@ "get_invoice" :> "invoices/:id/document" @@ "get_invoice_findings" :> "invoices/:id/exceptions"
  @@ "get_open_exceptions" :> "ops/exceptions" @@ "get_integrations" :> "integrations"

AgentTools == Gets({Tools[name] : name \in DOMAIN Tools})

KindFromStatus(status) ==
  CASE status = 404 -> "NOT_FOUND"
    [] status \in {401, 403} -> "NOT_PERMITTED"
    [] status \in {400, 422} -> "INVALID_INPUT"
    [] status \in {501, 503} -> "NOT_CONFIGURED"
    [] OTHER -> "UPSTREAM"

\* What an agent hears: DATA, or why not, of which only UPSTREAM is worth a retry.
\* NoAnswer stands for a timeout, a broken connection and an unreadable answer.
NoAnswer == 0
ToolAnswer(name, wellFormed, status) ==
  CASE name \notin DOMAIN Tools -> "NOT_CONFIGURED"
    [] name \in DOMAIN Tools /\ ~wellFormed -> "INVALID_INPUT"
    [] OTHER -> IF status = 200 THEN "DATA" ELSE KindFromStatus(status)

\* nav-items.ts: the links a kind of tenant is offered.
NavItems(type) ==
  CASE type = "CUSTOMER" -> {"/track"}
    [] OTHER ->
      {"/", "/system", "/quotes", "/rates", "/shipments", "/ops", "/customs", "/documents",
       "/parties", "/integrations", "/invoices", "/billing", "/finance"}
      \cup (IF type = "OPERATOR" THEN {"/partners", "/network"} ELSE {"/platform-fees"})

Serves(call) == {r \in PeopleRoutes : <<r.verb, r.path>> = call}
=============================================================================
