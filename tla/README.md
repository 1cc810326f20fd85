# Forge Freight: a TLA+ model

Forge Freight is a freight forwarder's back office: quotes become bookings,
bookings become shipments, and what happens to a shipment is kept as an
append-only log of events in PostgreSQL from which read models, charges,
invoices and a ledger are derived. Beside it stand a Temporal worker, a web
console, a console with a seeded book of its own and a server of tools for
agents. This directory holds TLA+ specifications of the system, TLC
configurations that check them on small instances, and TLAPS proofs of what
matters most for every instance.

Paths below are relative to `src/`; `M/` stands for `apps/api/src/modules/`.

## 1. Inventory

| Component | State it keeps | Operations | Interacts with | What makes it correct | Module |
|---|---|---|---|---|---|
| Event log and catalogue (`M/db/event-store.ts`, `packages/events`) | `events` rows, sorted by (recordedAt, eventId) | stamp and insert in a transaction, commit, roll back; check a payload | every service writes it; dispatcher and relay read it | an event exists iff its transaction committed | `EventLog`, `Catalogue` |
| Event dispatcher (`M/projector/event-dispatcher.service.ts`) | `consumer_offsets`; in memory: handler, batch, `ticking` | tick: read watermark, select a batch, call the handler, store the watermark | log, five handlers, a timer per API instance | ordered, at least once, nothing skipped | `EventDispatcher`, `OrderedDelivery` |
| Projections, accrual, ledger (`M/projector`, `M/shipments/lifecycle.ts`, `packages/ontology-bridge`) | `shipments.status`, `shipment_exceptions`, `charges`, `ledger_events` | handle one event, statement by statement | called by the dispatcher; billing appends `charge.accrued` | replays change nothing; read models are the replay of the log | `Projections`, `ShipmentLifecycle` |
| Outbox relay (`M/outbox`) | `events.published_at`; the Redpanda topic | select, send, stamp | log, broker, a timer per instance | nothing lost, order kept per shipment | `OutboxRelay` |
| Booking (`M/bookings`) | quote, booking, shipment, screening status | `bookQuote` | clients, screening, log, Temporal | one booking per quote, all or nothing | `Bookings` |
| Payments (`M/billing/billing.service.ts`, `overdue-sweep.service.ts`) | `invoices.status`, `payments` | `recordPayment`, `markOverdue` | the bank's webhook, an hourly sweep, log | each payment once; the status follows the total | `Payments` |
| Invoicing (`M/billing`) | invoices, uninvoiced charges, number series | `issueInvoices`, `nextNumber`, manual charges, the document | accrual, payments | a charge twice only when two issues overlap, no gap in the series | `Invoicing`, `InvoiceRules` |
| Invoice audit (`M/billing/invoice-assembly.service.ts`, `invoice-audit.ts`, `charge-codes.ts`) | `invoice_exceptions`, `charges.disputed` | audit, decide a finding | invoices, quotes, fuel index, events | decisions stand, findings are the last audit's | `ChargeCodes`, `InvoiceRules`, `InvoiceAudit` |
| Customs and duty (`M/customs`) | `customs_entries`, their lines | create, confirm, prepare, submit, outcome | people, the bureau's webhook, log | legal steps only; table and log agree; doubtful codes confirmed by a human | `CustomsEntries`, `Cents` |
| SLA sweep, carrier ladder (`M/shipments`) and the policy (`M/policy`) | none of their own; they read projections | sweep, raise, chase, escalate | log, projections that lag behind it | a chase per attempt, then a person; repeats only while the projection lags | `Watch`, `ShipmentLifecycle` |
| Shipment workflow (`apps/worker`, `M/temporal`, `M/projector/workflow-signaler.ts`) | the workflow's history in Temporal | phases, timers, signals, activities | API, log | late milestones are raised as the sweep's rules say; it ends | `ShipmentWorkflow` |
| Screening (`M/compliance`) | `parties.screening_status` | screen, sweep the oldest | booking, log, the lists | every stale verdict is asked again | `Screening`, `Bookings` |
| Quoting, rates, consignments (`M/quoting`, `M/rates`, `M/consignments`) | margin rules, consignments, quotes | price, keep rules, correct cargo | booking, RFQ intake | a lane stays quotable, dangerous goods stay declared | `Cents`, `QuoteEngine`, `Quoting` |
| RFQ intake (`M/ingest/rfq.service.ts`) | consignment, quote | answer a mail | quoting, screening | a message is quoted once, refused for a reason | `Quoting` |
| Tracking ingest (`M/ingest`) | none; in memory the vessels' identities | one adapter per source, resolve, append | carriers, partners, trucks, an AIS stream; log | each milestone once, on the right shipment | `Adapters`, `Tracking` |
| Documents (`M/documents`) | `documents` | upload, extract, review | object store, language model, log | what is approved was read or corrected | `Documents` |
| SARS filing, fuel index, terminal events, notifications, registry (`M/integrations`, `M/notifications`) | `compliance_filings`, `fuel_index_quotes` | file, ask, send | authority, index, terminals, provider | an outage blocks nothing | `Feeds` |
| Auth, roles, tenants (`M/auth`, `config.ts`, `apps/web` routing) | configuration, `tenants` | let in or refuse, boot or not | every route | nobody crosses tenants; both halves agree | `Access`, `Api` |
| Routes and their callers, MCP server (controllers, `apps/web/src/lib`, `services/freight-mcp`) | none | list, read, write | console, agents, scheduler | every call meets one route; agents only read | `Api` |
| Reading the book (`M/shipments`, `M/portal`, `M/system`, fees and network) | none | page, map, timeline, share, sum | everything above | no page repeats; a customer sees what was shared | `Portal` |
| Console sessions (`apps/web/src/lib`, `middleware.ts`) | two cookies; the provider's sessions | sign in, refresh, sign out | identity provider | the session is of who signed in last | `Session` |
| Seeded console (`console/`) | one book in memory | price, book, advance, clear, invoice, pay, audit | nobody | books only what it priced; its rules are the platform's | `ConsoleRules`, `Console` |
| Database schema (`packages/db/src/schema.ts`) | tables, references, unique indexes, enums | | every service | conflict targets exist, deletes succeed, rows have a company | `Schema` |
| Web pages and components, infrastructure | presentation, deployment | | | | not modelled, section 8 |

**How they meet.** A service writes its tables and its events in one
transaction. An event gets its `recordedAt` in the service and becomes visible
only at commit, so events do not appear in the order in which they sort. Every
API instance runs a dispatcher and a relay on timers, with nothing that keeps
two instances apart. The dispatcher calls the handlers in registration order:
lifecycle, billing, ledger, workflow signals, notifications. Sweeps are called
by a scheduler that may call again while a call is under way. All transactions
run at READ COMMITTED.

**What is hard here**: commits out of recorded order; two instances on one
watermark; a crash between a handler and its watermark or between two statements
of a handler; guards read from an older snapshot than the lock they wait for;
status checked before a transaction and overwritten in it; sweeps that read a
projection behind the log they write; redelivered webhooks that run at the same
time; retries of what had been done; answers that arrive after the question no
longer holds (screening, token refresh); signals dropped. `PROJECT.json` lists
each hazard at its line with the property that would catch it.

## 2. Modules

| Module | Role |
|---|---|
| `EventLog` | the log: stamp, commit, roll back. An event *is* its place in (recordedAt, eventId) |
| `OrderedDelivery` | abstract: what the dispatcher promises its handlers |
| `EventDispatcher` (`MC...`, `...Proofs`) | the tick of every instance, with an abstract handler; refines `OrderedDelivery` |
| `Projections` (`MC...`, `...Proofs`) | the dispatcher with the real first three handlers, statement by statement; refines `EventDispatcher` |
| `ShipmentLifecycle` | what an event means to a shipment; which SLAs it has crossed |
| `OutboxRelay`; `Catalogue`, `Adapters`, `Tracking`; `MCIngest`; `IngestProofs` | the log's two ends |
| `Bookings`, `ShipmentWorkflow`; `MCShipments`; `ShipmentsProofs` | booking, and the workflow it starts |
| `Payments`, `Watch`, `Screening`; `MCSweeps`; `SweepsProofs` | what a scheduler calls |
| `Cents`, `QuoteEngine`, `Quoting`; `Invoicing`; `ChargeCodes`, `InvoiceRules`, `InvoiceAudit`; `MCBilling`; `BillingProofs` | from the request to the audited invoice |
| `CustomsEntries`, `Documents`, `Session`, `Console`; `MCDesk`; `DeskProofs` | what people do at a desk |
| `Sums` | proved facts about sums, counts and choices by number, which the `...Proofs` use |
| `ConsoleRules` | the seeded console's own pricing, duty, audit, translated from the console |
| `Access`, `Api`, `Portal`, `Feeds`, `Schema` | rules without state, as operators; instantiated by `MCBilling`, `MCDesk`, `MCSweeps` |

`EventDispatcher`, `OutboxRelay` and `CustomsEntries` extend `EventLog`.
A module that composes components which share no step (`MCIngest`,
`MCShipments`, `MCSweeps`, `MCBilling`, `MCDesk`) has a variable `part` that says
which one runs in a behaviour, so that their state spaces add instead of
multiplying; each keeps its own fairness.

### How state and actions correspond to the code

* **EventLog.** `clock`, `open[w]`, `committed`: what `makeEvent` has stamped,
  what an open transaction holds, what readers see. An event whose stamp sorts
  below others because of clock skew, or of two stamps in one millisecond, is
  one stamped in its place by a session that commits late.
* **EventDispatcher.** `offset` is `consumer_offsets`; `pc`, `cur`, `after`,
  `batch` are the locals of `safeTick` and `drain`. One action per `await`:
  `ReadOffset`, `SelectBatch`, `Handle`, `Advance`. `HandlerPoisoned` is a handler
  that always throws on one event, `Fault` any transient error or a restart;
  both end the tick for the handlers behind, as `safeTick`'s `catch` does.
  `handled` and `late` are history.
* **Projections.** `SetStatus`, `Clear`, `LookForOpen`, `Raise` are the statements
  of the lifecycle projector; `StartAccrual`, `InsertCharge`, `CommitCharge` the
  accrual with one transaction per charge; `StartLedger`, `InsertLedger` the sink.
  A fault may leave a transaction open, and the database then ends it either way
  (`OrphanCommits`, `OrphanRollsBack`). `CrossSpec` adds history only: `ran`, the
  instances that have started a tick, `crossed`, those whose drain another one has
  joined, and `unsure`, the parts of the tables (the status, each code) that such drains
  wrote and no instance on its own has set since.
* **OutboxRelay.** `published` is `published_at`, `topic[k]` the records of
  shipment k. The batch is a sequence because the select has no second sort key:
  rows of one millisecond (`TimeOf`) come in any order.
* **Adapters, Tracking.** An adapter turns a message into emissions: a type, the
  reference it is idempotent on, how its shipment is found, a payload. A handler
  (`call[h]`) resolves and appends emission after emission, each in a statement of
  its own (`Resolve`, `AppendEmission`); `Refuse` is a payload the catalogue does not
  take, `Answer` and `AnswerLost` the response. The AIS listener connects, is
  dropped, hears, and ends the process when an append fails (`IngestFails`), which
  takes the webhooks in flight with it until `Restart`.
* **Bookings.** `Claim` is the start of the guarded UPDATE: its NOT EXISTS is
  answered then; `Claimed` is the UPDATE going on after a wait, when PostgreSQL
  checks the row's new version but keeps the subselect's snapshot. `Commit`
  stands for the rest of the transaction, `Finish` for the workflow's start.
* **ShipmentWorkflow.** `phase` and `wf` are where the workflow function awaits;
  `seen` the flags its signal handlers set. `Signal` and `SignalLost` are
  `workflow-signaler` over `TemporalService.signal`, which logs a failure and drops
  the signal. `Timeout` starts the activity, whose attempts succeed, fail or time out
  with their insert still `flying`; after `MaxAttempts` the workflow fails.
* **Payments.** `Insert` is the insert with ON CONFLICT DO NOTHING, which waits for
  a transaction with the same reference; `Sum` the running total as this
  transaction sees it; `Write` the UPDATE, which waits for the row.
* **Watch.** `history` is the shipment's log, `board` the tables the lifecycle
  projector keeps and `shown` how far it has come. `SlaRead` and `LadderRead` are a
  sweep's select with its decision, `SlaAppend`, `ChaseAppend`, `EscalationAppend` the
  append that follows, `SweepFails` what a failed or abandoned call leaves undone. A
  chase is keyed by its attempt, a raise and an escalation by nothing.
* **Screening.** A request asks, stores, logs, for each party of its batch (`Ask`,
  `StoreVerdict`, `LogVerdict`); `Batches` is `selectForRescreening` under the cap. The lists
  move at any time (`ListMoves`).
* **Invoicing.** `ReadCharges` is the select outside the transaction;
  `ReadProfile`, `CreateProfile` are `ensure` and its insert with ON CONFLICT DO
  NOTHING; `Draw` and `Issue` the start and the commit of one currency's
  transaction. Nothing of it is visible in between, because `nextNumber`'s UPDATE
  locks the company's profile until the transaction ends.
* **QuoteEngine, Quoting.** The engine is operators from rules, cards and a request
  to lines. `DeleteRead`/`DeleteCommit` and `EditRead`/`EditCommit` are the check and
  the statement of a rule's deletion and a consignment's correction; `ReplayCheck`,
  `PartyCheck`, `Capture`, `Price`, `Store` the awaits of `RfqService`, and `QuoteFault`
  an error in any of them with the answer the code gives it.
* **InvoiceRules, InvoiceAudit.** One operator per rule of the audit, and the invoice
  as a document. `AuditRead` is everything an audit reads and computes, `AuditCommit` its
  upserts and the settling of what no longer reproduces, `ResolveException` a
  person's decision with its write to `charges.disputed`.
* **CustomsEntries.** `ReadEntry` and `ReadLines` are `getEntry`'s two selects with
  the checks that follow, `Refuse` the conflict when they fail; `Update`,
  `AppendEvent`, `CommitMove` the transaction. A call that ends takes what it read
  with it (`Forget`).
  `InsertEntry` and `InsertLines` are the two statements of `createEntry`. Duty and
  VAT are `Cents`' `ComputeDutyLine`.
* **Documents.** `StoreDocument`, `ReadDocument`, `SettleUpload` are the upload's two
  transactions with the reading between them; `StartReview` the status check and
  `Decide` the transaction of a review.
* **Session.** A tab's request carries the cookies of its sending (`carried`) and
  changes the jar when its answer arrives (`PageArrives`, `SignInArrives`); the refresh
  is in `Visit` and its outcomes (`Refreshed`, `RefreshRefused`, `RefreshFails`).
* **Console.** One action per handler that changes the book, taken from the seat
  `user` sits in. There is one thread, so a handler is one step.
* **Access, Api, Portal, Feeds, Schema.** A request, a route, a page, an answer of an
  outside system or a table is a record; each function of the code is an operator.

## 3. Runs

| Run | Instance | What it shows |
|---|---|---|
| `dispatch` | 2 instances, 2 writers, 2 handlers, 3 events, batch 2, 1 fault, handler 2 failing on event 3 | `WatermarkSound`: the watermark covers no work undone; `ImplementsOrderedDelivery`; `EventuallyHandled`: every event that is neither late nor behind a failing one |
| `relay` | relay: 2 relays, 2 writers, 3 events of 2 shipments, two of one millisecond, batch 2, 2 faults. Ingest: 2 handlers, 4 messages (two with one EDIFACT reference, one with a malformed place), a truck, a vessel listener, 1 fault, 1 drop, 3 AIS messages | what is stamped was sent (`StampedIsSent`); a consumer that drops duplicates sees a shipment in order, late commits apart (`DedupedInOrder`); everything is sent in the end (`EventuallySent`); an answered message is on the log, once (`MilestonesRecorded`); a failed message, and the listener, recover (`IngestRecovers`) |
| `spine` | alone: 1 instance, 3 handlers, 2 outside events of 4 kinds in any order, up to 7 events with those billing writes, 2 faults. Crossing: 2 instances, 2 events of 3 kinds (one raises a code, one clears it and moves the status, one moves the status). Accruing: 2 instances, a stop or a release, 1 fault | no charge, and no open exception of a code, is there more often than instances have run: not twice where it is one (`RowsPerInstance`). Once the projector has caught up its tables are the replay of what it was given (`ProjectionConverges`); where two have written across each other an old status comes back and an exception is open twice or again, but only in the parts in doubt, until one instance on its own sets them. Charges, `charge.accrued` and ledger rows agree (`LedgerReconciles`) |
| `accrual_crash` | one departure, 2 lines, 1 fault | **violation**: a fault between two lines leaves the second unaccrued for ever |
| `booking` | booking: 3 clients, 1 error. Workflow: SLAs of 1, 3 ticks, 3 milestones, 2 attempts, 1 lost signal | no request that comes after a booking books again (`NoLaterBooking`), all or nothing (`BookingAtomic`), everyone is answered (`EventuallyAnswered`); a late phase is on the log before the workflow goes on (`AlertedAtLeastOnce`), timers agree with the sweep's rules (`WorkflowAgrees`), the workflow ends (`WorkflowEnds`) |
| `double_booking` | 2 clients, no fault | **violation**: two overlapping requests both book |
| `customs` | customs: 2 calls at a time, 5 in all, a clear and a doubtful line, 1 fault. Session: 2 tabs, 2 users, 2 sign-ins, 1 sign-out, 1 provider fault, tokens of life 2. Document: 2 reviewers, 3 reviews, 1 fault. Console: 4 seats, one request through 2 invoices, 2 audits, 1 decision | `StatusIsLastEvent`, `NoStepInvented`, `ConfirmedWhenPrepared`, and a call on its own keeps to the transition table (`LoneCallSound`); `SessionIsWhoSignedIn`; `DocumentSettled`; `ConsoleBooks` |
| `release` | customs without a fault | **violation**: a call that read the entry before its release overwrites it |
| `sweeps` | payments: 2 halves, one delivered twice, 1 failure, the overdue sweep. Watch: 2 calls of each sweep, 2 time units, 2 reports, a projector up to 2 events behind, 1 failure. Screening: 2 parties, 1 scheduled run and 1 request, cap 1 or 2, 1 change of the lists, 1 failure | a reference is credited once (`OneEventPerPayment`), a delivery on its own settles (`LoneDeliverySettles`), lateness shows (`EventuallyOverdue`); chases in order and once, then a person (`ChaseLadder`); sweeps repeat themselves only as far as the projector is behind (`RepeatOnlyWhileBehind`); a lasting breach is shown (`BreachShown`); a verdict catches up with the lists (`VerdictCatchesUp`) |
| `settlement` | payments without a fault | **violation**: two halves that overlap leave the invoice PART_PAID |
| `billing` | invoicing: 2 clients, 4 calls, 3 charges on 2 shipments in 2 currencies, 1 failure. Quoting: 2 staff, 3 rules, 4 corrections, 3 deliveries of 2 messages, 1 change of a verdict, 1 fault. Audit: 2 auditors, 2 audits, 2 decisions over each of the priced sales | `NumbersGapless`, `BilledTwiceOnlyByOverlap`, `ChargesReconcile`; `LanesQuotable`, `DeclaredUnlessRaced`, `OneQuotePerMessage`, `AnswerJustified`; `FindingsStand`; an audit finds a contract variance only where another quantity was billed than quoted, and none of the arithmetic, currency, pass-through and reference faults it could have of its own (`HeldToItsQuote`) |
| `own_quote` | the audit of a sale of three containers | **violation**: an invoice of nothing but its accepted quote is reported to vary from it |

Each property of a passing run is paired in `PROJECT.json` with a mutant of a
definition of the model, the way a bug could enter the code, that breaks it.

### Rules without state

What is a function is evaluated over small inputs, as assumptions of the MC
modules that TLC checks before the run.

* `MCBilling`: a document's sections foot and a credit note reverses it exactly
  (`DocumentsFoot`), the headline currency is the largest (`HeadlineIsLargest`),
  splitting a consignment's rows changes no total by more than rounding
  (`SplittingIsFair`), a dispute claims overcharges only (`ClaimsAreOvercharges`).
  The seeded console's port agrees with the platform on audit, figures and document
  (`PortedAudit`, `PortedFigures`, `PortedDocument`) and not on margins
  (`NotPorted`). Pages serve nothing twice and lose only rows of a split millisecond
  (`PagesServeOnce`); a customer sees exactly what its company shares with it
  (`SharedByItsCompany`); a timeline is the journey's start (`TimelineIsItsStart`).
  The schema's promises: `CollisionsIndexed`, `OneRowEach`, `DeletesUnhindered`,
  `EveryRowHasACompany`, `BillingWords`. Fees, network and monitor: `FeesAgree`,
  `FeesAreNotAllThePlatforms`, `HealthIsAge`.
* `MCDesk`: the console boots and routes as the API does (`ConsoleFollows`,
  `NoRedirectLoop`), production has named its callers
  (`ProductionNamesItsCallers`), a role binds (`RolesBound`); each call of console
  and agents meets one route (`CallersAreServed`), agents only read
  (`RoutesKeepApart`), links open (`LinksOpen`), a retry is worth it only where
  something may change (`RetriesCanHelp`). Outside systems:
  `NothingBlocksProduction`, `BenchmarkIsKept`, `ClockIsTheLogs`,
  `FilingsKeepOneRow`, `NotifiedPerHandling`; and `DeskWords`.
* `MCIngest`: EDIFACT text is read back as written (`ReadsWhatIsWritten`), messages of
  an interchange are apart (`MessagesAreSeparate`), an adapter's emissions are what the
  catalogue takes, malformed places apart (`EmissionsConform`, `RefusedIsUnsound`).
* `MCSweeps`: `SweepWords`, that the models' words are the columns' enums.

### Bounds, and why they are enough

Two instances, writers, calls, tabs or reviewers exhibit every pairwise race, and
the code has no step that depends on how many others there are. Three events
are the fewest with one that commits late between two others and a batch that does
not take all. `spine` needs seven: a departure and a release with their three
charges, and what faults roll back. Two instances cross there on two events, the fewest
that two projectors can be apart by and that one of them can handle on its own after
both have crossed, and with a fault on one event; the proofs cover the rest. Five
customs calls take an entry through prepare, submit and an outcome with two that overlap
them. Four issues are two that overlap and a retry of each. Three deliveries are a
message, its redelivery and another's. Two audits with two decisions let each come
before, between and after the other. Two time units and a ladder of two attempts pass
every wait once, and two reports are a departure and an arrival. One fault reaches every
point at which a step can be cut; two let a replay be cut again. The bounds are
constants of the modules, named `Max...`, and for the parts of `spine` those of
`MCBounds`; the proofs hold for every value of them.
Money and ages are scaled so that products stay in TLC's 32-bit integers; every
rounding the code does is done.

`CHECK_DEADLOCK FALSE` is set where the system really stops: when every client,
delivery or call has been answered and the bounds are used up. Symmetry is used
only in runs without liveness.

## 4. Fairness

* Dispatcher and relay: weak fairness of each instance's tick. The timers
  (`setInterval`) fire for as long as the process runs and an awaited call
  returns or throws. None is assumed of writers: a transaction may stay open.
* Requests *under way* (bookings, payments, tracking handlers, screening requests):
  weak fairness, for the same reason; none of clients, who need not ask, and none
  of faults. A wait for a row lock ends because its holder is itself under way.
* Schedules: the overdue sweep, the re-screening run (`StartSweep`) and the calls of
  the SLA sweep and the ladder are called for ever, and time passes (`Tick`, `Day`,
  `WfTick`). The projector moves on (`Project`), which is what `EventuallyHandled` says
  of it.
* Workflow: weak fairness of the worker (Temporal retries a task for ever) and of the
  signaler, whose step is a signal or its loss.
* Tracking: the sender of a message that is served delivers it until it is answered
  (strong fairness of `Deliver`, because a handler is not always free). The
  process is started again after it ended (`Restart`, strong, since it may end again)
  and the listener's timer reconnects (`Connect`, weak).
* Faults are bounded, so liveness is claimed of runs in which they end.

## 5. Proofs

TLAPS checks these for all values of the constants, from named assumptions on
them only, which TLC evaluates in the runs: `EventLogAssumption`,
`DispatcherAssumption`, `SpineAssumption`, `RelayAssumption`,
`TrackingAssumption`, `BookingAssumption`, `NobodyAssumption`,
`WorkflowAssumption`, `PaymentAssumption`, `WatchAssumption`,
`CustomsAssumption`, `InvoicingAssumption`, `QuotingAssumption`, `SeededBook` of the
console, and for `InvoiceHeldToQuote` `SoldLines`, which says that what was accepted is
such as the quote engine sells. The proofs about sessions, documents and stored findings
need none. Some theorems have hypotheses besides:

* A finite set of parties, for `AgreementStays`.
* `Priceable`, for `AnswersJustified`: a card in time is on file for the lane, as the run
  `billing` has it. Otherwise every request is rightly told that there is no rate.
* The theorems about operators say of which inputs they speak. `NoPageTwice`: rows with
  ids of their own, any limit and any division of a millisecond. `EveryDocumentFoots`:
  charges with a category of the catalogue, and amounts that are not negative
  (`Billable`). `QuotedAtAMargin`: what `rates.dto.ts` lets staff and carriers store
  (`Rules`, `RateCards`), and requests that are priced (`Asked`).

Where a run's property is not inductive, this is what the invariant adds:

* `EventDispatcherProofs`: `TypeCorrect`, `WatermarkIsSound`,
  `DispatcherRefines`. `WatermarkSound` does not speak of rows an instance holds in
  memory while another moves the watermark. `DispatchInv` adds that what a handler
  has processed has no gap below it (`HandledSound`), and that each instance's batch
  continues it without a gap (`BatchSound`); an event committing into such a gap is
  late by definition. The refinement then maps Handle to Receive, a commit to
  Appear, and every other step to a stutter.
* `ProjectionsProofs`: `SpineRefinesDispatcher`, and from it
  `SpineWatermarkIsSound`: the statements of the handlers and their own
  transactions are stutters or writer steps of the dispatcher. `SpineTypeCorrect` adds
  where each instance stands in the handler it runs (`WorkSound`). On it rest
  `BooksReconcile` (the ledger and the charges agree with the log: rows are entered
  for what was handled and for nothing else, and what the sink has left of an event is
  what it has not entered) and `OncePerInstance`
  (`OnceInv`: the rows of a charge and the instances that are past its check and have not
  written it are together no more than the instances that have run, and so of an
  exception's code).
  `ProjectionRecovers` is of any number of instances too. Nothing in the code keeps two
  apart, and what two write across each other can be wrong, so the tables are right up to
  the parts in doubt, and the theorem says that these are all. `CrossInv` says that
  status and exceptions are those of a replay of what lies behind
  the watermark, except where they are in doubt or an event handled already but ahead of
  the watermark (a crash came before it was stored) will settle them when it is handled
  again; that two instances drain at once only if both are crossed; and that one which
  is not goes on from the watermark, with the statements it has done so far in the
  tables. `CrossStepMaps` shows that the history changes nothing, so what is proved of
  `SpineSpec` holds with it.
* `IngestProofs`: for the relay `RelayTypeCorrect`, `StampedWasSent` (what a tick is
  about to stamp was sent) and `RelayDedupedInOrder`: behind an event, in a partition or in
  a batch, comes no earlier one of its shipment for the first time, unless it
  committed late (`TopicInOrder`, `BatchInOrder`). For ingest `IngestRecordsMilestones`:
  what a handler has got through of its message is settled, on the log, put by for
  review or ambiguous, and what was not answered is due whole (`CallSound`, `DueSound`).
* `ShipmentsProofs`: `BookingTypeCorrect`, `WorkflowAfterCommit`, `BookedOnceSeen`,
  `AcceptedWithBooking`, `BookingIsAtomic`. The invariant adds that whoever is past
  the claim came in before any booking. Of the workflow `WorkflowTypeCorrect`,
  `ToldBeforeGoingOn` (an alert that was acknowledged is on the log, at whatever point of
  its phase the workflow is) and the action property `TimersAgreeWithRules`, which needs
  in addition when a phase began and what was heard in it. `NoPageTwice` is about the
  lists: whatever arrives while somebody pages, what was served lies before the cursor
  and what is to come behind it (`Reading`), and what the cursor cuts off is of the
  millisecond of the row it was made from.
* `SweepsProofs`: `PaymentTypeCorrect`, `CreditedOnce` (an open transaction that has
  inserted a reference excludes any other), and the action property
  `LoneDeliveryIsRight`: a delivery that overlaps no other has the row to itself but for the
  sweep, and computed the status that its payments call for (`LoneSound`). Its sums over
  sets of payments are folds; `PaidPositive` and the lemmas around it get what they need of
  them from the fold's own definition. `WatchTypeCorrect`, `AskedInOrder` and
  `RepeatedOnlyUnseen`: what a call has decided still holds when it is the next to append
  (`ChaseSound`, `EscalationSound`), and a code that the board does not show was cleared
  after each time it was raised (`BoardSound`). `AgreementStays` is the half of
  `VerdictCatchesUp` that is no liveness: of a party about whom the lists stand still, a
  verdict that agrees with them is kept, unless an older answer was still on its way.
* `BillingProofs`, of quoting: `QuotingTypeCorrect`, `LanesStayQuotable` (a deletion
  that nobody crosses leaves the rule it checked for), `DeclaredUnlessCrossed`,
  `QuotedOnce`, `QuotedAfterCheck`, `AnswersJustified` (who is told that there is no rate
  met rules lost in a way that `LanesQuotable` allows, a fault, or a delivery that was
  quoted). `QuotedAtAMargin` is about the engine itself: one rule wins and one card is
  cheapest, and from them each line is followed through uplift, share and margin to a
  price that is not below its cost, and for freight not below the floor.
  Of invoicing: `InvoicingTypeCorrect`, `SeriesGapless`, `TwiceOnlyByOverlap`,
  `ChargesAgree`. `Numbering` says that a drawn number stays the next one under the
  lock; `HeldSound` that a charge which a call has read and has not billed is billed
  meanwhile by overlapping calls only.
  Of the audit: `AuditsKeepDecisions`: decisions stand in every audit, whatever the
  rules it applies compute. `InvoiceHeldToQuote` is about those rules: a charge of the
  invoice is a line of the quote or the platform's fee (`BilledLines`), a contract price
  is that of the quote's last line of the code (`ContractedBy`), so a variance of price
  is of a quantity (`VarianceFound`), and what an audit would say of our own arithmetic
  cannot be said of them (`OwnFaultFound`). `QuoteInv` says so of the findings an
  auditor holds as well as of those stored. `EveryDocumentFoots`: a document's sections
  are the parts of one sum, the nth category in use being reached once.
* `DeskProofs`: `CustomsTypeCorrect`, `TableAgreesWithLog`, `NoStepIsInvented`,
  `HumanConfirmed`, `LoneCallIsSound`. `StatusIsLastEvent` needs that an event
  about to commit is the last one stamped, which follows from the row lock
  (`LockSound`, `StampSound`); the next two need that what a call has read was
  once reached, and that its checks passed on it (`ReadSound`, `LinesSound`); the last,
  an action property, that what a lone call has read is what is there. `SessionStays`:
  a request sent since the last sign-in or sign-out carries the session of whoever
  signed in, unless an older answer came between, and so does the answer on its way
  (`TabSound`). `DocumentsSettle`: a document is uploaded before anything else
  (`UploadFirst`) and, unless reviews overlapped, the one that decides finds the document
  as it read it, approved by none (`OneReview`). `ConsoleBooksKept`: the seeded console's
  books. `BooksInv` adds what `ConsoleBooks` leaves out: a charge carries the trigger it
  was accrued for, every invoice has a line that costs something, and clearance is
  accrued together with the duty of its entry; without these a payment of nothing would
  settle an invoice, and a second release charge again.

The provers have no induction over data. Where a fact about every finite set or
sequence of numbers is needed, `Sums` takes the least counterexample (`LeastNumber`,
`BySmaller`) and the recursive equation of the function in question, and states the fact
once: what a sum over a set is when one place is taken out, split or scaled, what a
selection keeps, that a finite set of numbers has a greatest.

**Only model-checked**, and why:

* every liveness property (`EventuallyHandled`, `EventuallySent`, `IngestRecovers`,
  `EventuallyAnswered`, `WorkflowEnds`, `EventuallyOverdue`, `BreachShown`,
  `VerdictCatchesUp`): TLAPS proves no liveness under fairness;
* the rules without state, but for documents, pages and quotes, which have theorems:
  most compare two catalogues or two implementations entry by entry, and are evaluated on
  the inputs of section 3.

## 6. Where the code and what it says differ

Five differences are runs that TLC finds violated:

1. `double_booking`: `M/bookings/bookings.service.ts:96` says one booking per
   quote. The guard's NOT EXISTS is answered in the snapshot the UPDATE started
   with, ACCEPTED quotes match too, and no unique index backs it.
2. `settlement`: `M/billing/billing.service.ts:259` says the running total
   decides. Two transactions that overlap each sum without the other's payment.
   A later delivery on its own repairs it (`LoneDeliverySettles`).
3. `accrual_crash`: `M/projector/billing-accrual.ts` says it is idempotent by
   trigger; with one transaction per line, what was done half is never finished.
4. `release`: the transition table lets nothing follow RELEASED; the UPDATE does
   not look at the status again.
5. `own_quote`: `M/billing/invoice-assembly.service.ts:558` holds an invoice to what
   the customer was sold; a quote line's price is per unit already, and the contract
   divides it by the quantity once more.

The others were met while modelling. The models contain them, most properties
state exactly how far the code goes in spite of them, and `PROJECT.json` lists each
with both lines under `findings`. By component:

* **Log and topic.** `docs/architecture.md:19` promises recorded order on the topic; an
  event that commits late comes behind (`DedupedInOrder` excepts exactly those).
* **Projections.** A replayed or late event takes a shipment out of DELIVERED
  (`lifecycle-projector.ts:22`).
* **Invoice audit.** Nothing is resolved when an audit finds nothing, and findings are
  matched by code without their charge; deciding one finding releases a charge that
  another one holds; every demurrage line is unverifiable; `UNMAPPED_CHARGE_CODE` cannot
  occur; the platform's own fee always lacks VAT.
* **Rates and consignments.** Overlapping deletions lose the last catch-all rule, and
  overlapping corrections store what neither would have passed.
* **RFQ intake.** A redelivery that overlaps the first is told that the lane has no rate.
* **Screening.** A slow answer overwrites a newer HIT; no caller names a shipment, so no
  compliance hold is ever raised, at booking either (`docs/architecture.md:65`).
* **Sweeps and workflow.** A second run of a sweep raises again while the projector is
  behind; an alert whose attempts fail ends the workflow.
* **Tracking.** An EDIFACT reference does not name its interchange, so a milestone can be
  dropped as a duplicate; a database error behind the AIS listener ends the process.
* **Documents.** A failed upload stays where nobody can review it; overlapping reviews
  both decide.
* **SARS filing.** The upsert names a partial index without its predicate, so PostgreSQL
  stores nothing and the call ends in an error.
* **Other integrations.** A quote of the fuel index from the feed is trusted whatever its
  date and not always cached; the terminal's answer can take away a time the log had.
* **Access and sessions.** The writing routes of bookings, customs, documents and quotes
  ask for no role; most operational routes look at no tenant type; any error of a
  refresh ends the session, and tabs that refresh at once lose it.
* **Reading.** A page's cursor loses rows of its last millisecond; a timeline is its
  first 500 events; platform fees add up other fees and only the newest 500; health is
  the age of the last event; an alias of a second vendor replaces the first's.
* **Seeded console.** It prices differently from the platform it ports; booking can
  record cargo without a booking; an entry prepared after its release is charged to
  nobody; accepting one finding releases a charge another disputes; it says of a filing
  that it is queued when it is submitted.

## 7. Plan

What is left, in this order:

1. Proofs: the console's port of the rules against the platform's, for every input and
   not the sampled ones.
2. A refinement of the ladder and of the tracking handlers by a common abstract
   specification of an append that is idempotent on (type, source_ref).
3. A second customs entry of a shipment on `Projections`.
4. Editing of rate cards and classification, of which the pure part is a lookup.

## 8. Not modelled, and why

* Web pages and components (`apps/web/src/app`, `components`), layout, the console's
  rendering and its tour: presentation. What they call is in `Api`, where they may go in
  `Access`.
* The quote's PDF, handling notes, messages and labels: wording.
* Editing a rate card and its surcharges: single statements on a row that the engine
  reads as a whole; the engine takes any card.
* Editing the billing profile, whose prefix and bank details do not touch the series.
* Classification (`classification.service.ts`) and the tariff: a language model and a
  table; `CustomsEntries` takes any line to be clear or doubtful.
* In `CustomsEntries`, `bureauPayload` (a read) and the fact that `confirmLine` finds the
  line by its own id alone: one entry is modelled.
* In `Invoicing`, the refusal of a shipment or company that does not exist.
* In `Console`, documents, parties and rolled bookings: nothing that is modelled reads
  what they write.
* Seed data, deployment, schedules, observability: configuration. Two instances and
  repeated schedules are taken from there as assumptions.
* Temporal, the broker, the identity provider, the screening lists, the language model,
  the authority and the other services are external; the models give them every answer
  the code distinguishes, and none.
