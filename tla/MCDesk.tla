-------------------------------- MODULE MCDesk --------------------------------
(***************************************************************************)
(* The desk: calls on a customs entry, the review of a document, the       *)
(* browser session of the people who work there, and the seeded console,   *)
(* in behaviours of their own.  The rules of who is let in have no state:  *)
(* what they promise is evaluated.                                         *)
(***************************************************************************)
EXTENDS CustomsEntries, Session, Documents, Console

INSTANCE Access

VARIABLE part

mcVars == <<part, vars, sessionVars, documentVars, consoleVars>>

MCSymmetry == Permutations(Calls)

-----------------------------------------------------------------------------
(* The seeded book: amounts are scaled to TLC's integers.                   *)

MCSeat(tenant, roles) == [tenant |-> tenant, roles |-> roles]

MCSeats ==
  {MCSeat("operator", {"admin", "ops", "finance"}), MCSeat("operator", {"finance"}),
   MCSeat("partner", {"admin", "ops", "finance"}), MCSeat("customer", {})}

MCConsoleCard(n, buy, transit, to, surcharges) ==
  [id |-> n, origin |-> "CNSHA", destination |-> "ZADUR", mode |-> "OCEAN", container |-> "40HC",
   buy |-> buy, currency |-> "USD", transit |-> transit, from |-> 0, to |-> to,
   surcharges |-> surcharges]

MCConsoleSurcharge(codeName, basis, amount, currency) ==
  [code |-> codeName, basis |-> basis, amount |-> amount, currency |-> currency]

MCConsoleRule(customer, bps, floor, at) ==
  [customer |-> customer, origin |-> "null", destination |-> "null", mode |-> "null",
   bps |-> bps, floor |-> floor, created |-> at]

\* The operator has a slow card and a fast one, the partner a slow one that runs out.
MCBook ==
  [operator |->
     [cards |-> {MCConsoleCard(1, 2350, 28, 999,
                   <<MCConsoleSurcharge("BAF", "PERCENT_OF_FREIGHT", 1450, "USD"),
                     MCConsoleSurcharge("THC", "PER_CONTAINER", 195, "USD"),
                     MCConsoleSurcharge("DOC", "PER_BL", 65, "USD")>>),
                 MCConsoleCard(2, 3100, 18, 999, <<>>)},
      rules |-> {MCConsoleRule("null", 1800, 1500, 1), MCConsoleRule("ubuntu", 1200, 1000, 0)}],
   partner |->
     [cards |-> {MCConsoleCard(3, 2280, 30, 50, <<MCConsoleSurcharge("QUAYHANDLING", "PER_CONTAINER", 195, "ZAR")>>)},
      rules |-> {}]]

MCLane(goods, urgency, quantity) ==
  [customer |-> "ubuntu", origin |-> "CNSHA", destination |-> "ZADUR", mode |-> "OCEAN",
   container |-> "40HC", quantity |-> quantity, cargo |-> goods, urgency |-> urgency,
   papers |-> {}, range |-> <<>>]

MCLanes == [plain |-> MCLane("GENERAL", "STANDARD", 2), fast |-> MCLane("OVERSIZED", "EXPRESS", 1),
            blocked |-> MCLane("HAZARDOUS", "STANDARD", 1)]

MCAgents == [partner |-> 500]
MCAliases == [operator |-> <<>>, partner |-> [QUAYHANDLING |-> "THC"]]
MCSpellings == [OTHC |-> "OHC"]
MCTariff == [operator |-> [OHC |-> 185000, DEM |-> 95000], partner |-> [OHC |-> 198000]]
MCGoodsRates == {-1, 0, 4500}

\* What besides the journey and its invoice a behaviour is about: the price, with
\* time passing; an entry; payments; audits; or a second invoice.
MCConcerns ==
  {k \in 1 .. 5 :
    CASE k = 1 -> form.prices > 1 \/ form.lane # "plain" \/ (hours.ticks > 0 /\ ~Booked)
      [] k = 2 -> entry # NoEntry
      [] k = 3 -> payments # {}
      [] k = 4 -> audited.count > 0
      [] k = 5 -> Len(invoices) > 1}

MCFewConcerns ==
  /\ Cardinality(MCConcerns) <= 1
  /\ hours.ticks > 0 /\ Booked => entry = NoEntry /\ (invoices # <<>> \/ shipment.step >= 5)
  /\ feeds.turned > 0 => IF "sars_edi" \in feeds.live THEN Booked /\ invoices = <<>> ELSE 4 \in MCConcerns

MCInit ==
  /\ part \in {"entries", "session", "documents", "console"}
  /\ Init /\ SessionInit /\ DocumentsInit /\ ConsoleInit
  /\ part # "documents" => extractable
  /\ part \in {"documents", "console"} => ~rotates
  /\ form.lane = "plain"

MCNext ==
  \/ part = "entries" /\ Next /\ UNCHANGED <<part, sessionVars, documentVars, consoleVars>>
  \/ part = "session" /\ SessionNext /\ UNCHANGED <<part, vars, documentVars, consoleVars>>
  \/ part = "documents" /\ DocumentsNext /\ UNCHANGED <<part, vars, sessionVars, consoleVars>>
  \/ part = "console" /\ ConsoleNext /\ MCFewConcerns' /\ UNCHANGED <<part, vars, sessionVars, documentVars>>

MCSpec == MCInit /\ [][MCNext]_mcVars

-----------------------------------------------------------------------------
(* What the rules of access promise together.                               *)

\* A deployment is one environment, read by API and console.
MCEnvironments ==
  [production : BOOLEAN, mode : {"dev", "jwt", "oidc", Absent}, storage : {"local", "s3"},
   roles : {"enforce", "advisory"},
   set : {(RequiredInProduction \cup more) \ less :
            more \in {{"DOC_STORAGE_S3_BUCKET"} \cup k :
                       k \in {{}, {"AGENT_API_KEY"}, {"AGENT_API_KEY", "AUTH_CLIENT_ID", "SESSION_SECRET"}}},
            less \in {{}} \cup {{k} : k \in RequiredInProduction}}]

MCTokens ==
  [valid : BOOLEAN, tenant : {Absent, NotUuid, "tenant"}, sub : {Absent, "sub"},
   roles : {{}} \cup {{role} : role \in {"admin", "finance", "ops"}}]

MCRequests ==
  [path : {"health", "ingest", "scheduled", "desk"}, apiKey : {Absent, RightKey, "wrong"},
   agentKey : {Absent, RightKey, "wrong"}, agentTenant : {Absent, NotUuid, "tenant"},
   devTenant : {Absent, "tenant"}, devRoles : {{"admin"}},
   bearer : {<<>>} \cup {<<t>> : t \in MCTokens}]

MCBooted == {e \in MCEnvironments : ApiBoots(e)}
MCLive == {e \in MCBooted : e.production}

\* One set of variables starts both: what satisfies the API in production leaves
\* the console signing people in, once it has what only it needs.
ASSUME ConsoleFollows ==
  \A e \in MCLive : {"AUTH_CLIENT_ID", "SESSION_SECRET"} \subseteq e.set =>
    ConsoleBoots(e) /\ ConsoleMode(e) = "oidc"

\* In production nobody gets past the guards unnamed: the machine's paths take its
\* key, and every other request but the health probes acts for a tenant it showed
\* a credential for.
ASSUME ProductionNamesItsCallers ==
  \A e \in MCLive, r \in MCRequests, role \in {{}, {"finance"}} :
    Served(e, r, role) =>
      \/ r.path = "health"
      \/ r.path \in {"ingest", "scheduled"} /\ r.apiKey = RightKey
      \/ /\ IsTenantId(Authenticated(e, r).tenant)
         /\ r.agentKey = RightKey \/ (r.bearer # <<>> /\ r.bearer[1].valid)

\* Where roles are enforced, an agent reaches what ops may do and nothing that
\* needs another role, and a person nothing their token does not name.
ASSUME RolesBound ==
  \A e \in {b \in MCLive : b.roles = "enforce"}, r \in MCRequests, role \in {"admin", "finance", "ops"} :
    r.path = "desk" /\ Served(e, r, {role}) =>
      IF r.agentKey # Absent /\ "AGENT_API_KEY" \in e.set THEN role = "ops"
      ELSE r.bearer[1].roles \cap {"admin", role} # {}

\* Whoever is sent away from a page is sent to one they may see.
ASSUME NoRedirectLoop ==
  \A type \in TenantTypes, path \in Operational \cup {"/", "/track", "/login"} :
    MayVisit(type, path) \/ MayVisit(type, HomeFor(type))

Base == INSTANCE Schema WITH Null <- Absent

\* The words of these models are the words the columns take.
ASSUME DeskWords ==
  /\ EntryStatus = Base!EntryStatus /\ TenantTypes = Base!TenantType
  /\ DOMAIN R!CargoTypes = Base!CargoType /\ DOMAIN R!Urgencies = Base!Urgency
  /\ \A s \in Base!EntryStatus : Transitions[s] \subseteq Base!EntryStatus

-----------------------------------------------------------------------------
(* The routes, and who calls them.                                          *)
Routes == INSTANCE Api

\* Every call of the console and of an agent has one route, and its refusals are
\* those of that route.
ASSUME CallersAreServed ==
  \A call \in Routes!PageCalls \cup Routes!BrowserCalls \cup Routes!AgentTools :
    Cardinality(Routes!Serves(call)) = 1

\* An agent reads what belongs to the company it works for and asks for no role;
\* what a company shares is for customers only, what is everybody's for the operator.
ASSUME RoutesKeepApart ==
  /\ \A call \in Routes!AgentTools, r \in Routes!PeopleRoutes :
       r \in Routes!Serves(call) =>
         /\ r.verb = "GET" /\ r.role = Routes!NoRole /\ "PARTNER_AGENT" \in r.types
         /\ r.rows \in {Routes!Own, Routes!NoRows}
  /\ \A r \in Routes!PeopleRoutes :
       /\ r.rows = Routes!Shared <=> r.types = {"CUSTOMER"}
       /\ r.rows = Routes!Every <=> r.types = {"OPERATOR"}

\* A link a company is offered is to a page it may see.
ASSUME LinksOpen ==
  \A type \in TenantTypes : \A path \in Routes!NavItems(type) : MayVisit(type, path)

\* An agent retries what failed, and nothing that would be refused again.
ASSUME RetriesCanHelp ==
  \A name \in DOMAIN Routes!Tools \cup {"create_lesson"}, wellFormed \in BOOLEAN,
     http \in {Routes!NoAnswer, 200, 400, 401, 403, 404, 500, 503} :
    (Routes!ToolAnswer(name, wellFormed, http) = "UPSTREAM")
      = (name # "create_lesson" /\ wellFormed /\ http \in {Routes!NoAnswer, 500})

-----------------------------------------------------------------------------
(* What is asked of other systems: times and references are numbers.        *)
Outside == INSTANCE Feeds WITH Unknown <- -1

MCQuote(value, day) == [value |-> value, day |-> day]
MCAnswers == {<<>>} \cup {<<MCQuote(value, day)>> : value \in {7, 8}, day \in {-1, 1, 5}}

\* An API that boots in production has every integration that production needs.
ASSUME NothingBlocksProduction ==
  \A e \in MCLive : Outside!Summary(e.set).blocking = {}

\* Asked again in the same currency, the index gives what it gave before, as long as
\* that is fresh and no other currency has taken the day; a benchmark is never
\* invented, and one from the feed can be of any age.
ASSUME BenchmarkIsKept ==
  LET Ask(cache, currency, answer) ==
        Outside!BenchmarkFor(cache, "BAF", currency, 5, 3, TRUE, answer)
      Dated(answer) == IF answer[1].day = -1 THEN 5 ELSE answer[1].day
  IN \A earlier, first, second \in MCAnswers :
       LET before == Ask({}, "ZAR", earlier)
           given == Ask(before.cache, "USD", first)
           again == Ask(given.cache, "USD", second)
       IN /\ (given.benchmark = <<>>) = (first = <<>>)
          /\ given.benchmark # <<>> /\ Dated(first) >= 2 /\ (earlier = <<>> \/ Dated(earlier) # Dated(first))
               => again.benchmark = given.benchmark

\* The log's two times are what the clock shows; the terminal, asked for the one that
\* is missing, can take away the one there was.
ASSUME ClockIsTheLogs ==
  LET MCAt(type, at) == [type |-> type, at |-> at]
      Terminal(d, g) == <<[discharged |-> d, gateOut |-> g, emptied |-> 9]>>
  IN /\ \A d \in 1 .. 2, g \in 3 .. 4, more \in 1 .. 4, numbered \in BOOLEAN,
           answer \in {<<>>, Terminal(0, 0)} :
          LET gates == {MCAt("container.discharged", d), MCAt("container.gated_out", g),
                      MCAt("container.gated_out", more)}
              gate == Outside!GateClock(gates, numbered, TRUE, answer)
          IN <<gate.discharged, gate.gateOut, gate.source>> = <<d, IF more < g THEN more ELSE g, "EVENT_LOG">>
     /\ Outside!GateClock({MCAt("container.discharged", 1)}, TRUE, TRUE, Terminal(-1, 4)).discharged = -1

\* One row for a submission, however often it is filed and whatever is answered; but
\* the index its upsert names is not the database's, so that none is.
ASSUME FilingsKeepOneRow ==
  LET MCRequest(n, payload) == [tenant |-> "t", kind |-> "SARS_CUSDEC", submission |-> n, payload |-> payload]
      MCVerdicts == {<<>>, <<[ok |-> TRUE, ref |-> 1]>>, <<[ok |-> FALSE]>>}
      Indexed == Base!Inferred(Base!FilingCollision)
  IN \A first, second \in MCVerdicts, n \in 1 .. 2, live \in BOOLEAN, indexed \in BOOLEAN :
       LET once == Outside!Submit({}, MCRequest(1, "a"), live, first, indexed)
           twice == Outside!Submit(once.filings, MCRequest(n, "b"), live, second, indexed)
       IN /\ Cardinality(twice.filings) = IF indexed THEN n ELSE 0
          /\ \A f \in twice.filings : f.submission = n => f.payload = "b"
          /\ ~live => \A f \in twice.filings : f.status = "QUEUED"
          /\ Outside!Submit({}, MCRequest(1, "a"), live, first, Indexed).told = "ERROR"

\* An event handled twice notifies twice, and a call that fails is not made again
\* unless the event is.
ASSUME NotifiedPerHandling ==
  LET MCPod == [shipment |-> "s", type |-> "pod.confirmed"]
      Told(handled, fails) == Outside!Notified(handled, [s |-> "acme"], {"acme"}, TRUE, fails)
  IN /\ Cardinality(DOMAIN Told(<<MCPod, MCPod>>, {})) = 2
     /\ Told(<<MCPod>>, {1}) = <<>>
     /\ Told(<<[MCPod EXCEPT !.type = "charge.accrued"], [MCPod EXCEPT !.shipment = "t"]>>, {}) = <<>>
=============================================================================
