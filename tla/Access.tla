-------------------------------- MODULE Access --------------------------------
(****************************************************************************)
(* Who is let in: the boot configuration of API and console, the guards of  *)
(* the API (modules/auth, IngestKeyGuard) and the console's routing by kind *)
(* of tenant.  Each is a function of what a request presents.               *)
(*                                                                          *)
(* Keys, tenants and tokens are abstract: a key is Absent, the configured   *)
(* one or another; a tenant id is Absent, well-formed or NotUuid.           *)
(****************************************************************************)

Absent == "absent"
RightKey == "right"
NotUuid == "not-uuid"

\* The request is served for nobody in particular, or not at all.
Anonymous == [tenant |-> Absent, user |-> Absent, roles |-> {}]
Refused == [tenant |-> "refused", user |-> Absent, roles |-> {}]
As(tenant, user, roles) == [tenant |-> tenant, user |-> user, roles |-> roles]

IsTenantId(tenant) == tenant \notin {Absent, NotUuid}

-----------------------------------------------------------------------------
(* Boot.                                                                    *)

\* What the API must be told in production.
RequiredInProduction ==
  {"AUTH_ISSUER", "KAFKA_BROKERS", "TEMPORAL_ADDRESS", "INGEST_API_KEY", "YENTE_URL"}

\* loadConfig: mode, storage and the set of settings that are not empty.
ApiBoots(env) ==
  /\ env.production =>
       env.mode = "jwt" /\ RequiredInProduction \subseteq env.set /\ env.storage = "s3"
  /\ env.storage = "s3" => "DOC_STORAGE_S3_BUCKET" \in env.set
  /\ env.mode = "jwt" => "AUTH_ISSUER" \in env.set

\* readAuthConfig: AUTH_MODE may be unset, or spelt the API's way.
ConsoleMode(env) ==
  CASE env.mode = "dev" -> "dev"
    [] env.mode \in {"jwt", "oidc"} -> "oidc"
    [] OTHER -> IF "AUTH_ISSUER" \in env.set THEN "oidc" ELSE "dev"

ConsoleBoots(env) ==
  /\ env.mode \in {"dev", "jwt", "oidc", Absent}
  /\ ConsoleMode(env) = "dev" => ~env.production
  /\ ConsoleMode(env) = "oidc" =>
       {"AUTH_ISSUER", "AUTH_CLIENT_ID", "SESSION_SECRET"} \subseteq env.set

-----------------------------------------------------------------------------
(* The API.                                                                 *)

\* IngestKeyGuard; a deployment without a key lets every caller in.
IngestAllowed(env, req) == "INGEST_API_KEY" \in env.set => req.apiKey = RightKey

\* TokenVerifier.verify.
Verified(token) ==
  IF token.valid /\ IsTenantId(token.tenant) /\ token.sub # Absent
    THEN As(token.tenant, token.sub, token.roles) ELSE Refused

\* JwtAuthGuard.  The machine prefixes have a guard of their own.
Authenticated(env, req) ==
  IF req.path \in {"health", "ingest", "scheduled"} THEN Anonymous
  ELSE IF req.agentKey # Absent /\ "AGENT_API_KEY" \in env.set
    THEN IF req.agentKey = RightKey /\ IsTenantId(req.agentTenant)
           THEN As(req.agentTenant, "agent", {"ops"}) ELSE Refused
  ELSE IF env.mode = "dev"
    THEN IF IsTenantId(req.devTenant)
           THEN As(req.devTenant, "dev", req.devRoles) ELSE Refused
  ELSE IF req.bearer = <<>> THEN Refused ELSE Verified(req.bearer[1])

\* RolesGuard: any one of the roles a handler requires; admin passes everywhere.
Authorized(env, required, auth) ==
  \/ required = {}
  \/ auth = Anonymous
  \/ "admin" \in auth.roles
  \/ required \cap auth.roles # {}
  \/ env.roles = "advisory"

\* requireTenantType: the kind of tenant the platform has on record.
OfType(typeOf, tenant, allowed) == tenant \in DOMAIN typeOf /\ typeOf[tenant] \in allowed

\* The guards of a handler, in the order they run.
Served(env, req, required) ==
  /\ req.path \in {"ingest", "scheduled"} => IngestAllowed(env, req)
  /\ Authenticated(env, req) # Refused
  /\ Authorized(env, required, Authenticated(env, req))

-----------------------------------------------------------------------------
(* The console's routes.                                                    *)

TenantTypes == {"OPERATOR", "PARTNER_AGENT", "CUSTOMER"}

Operational == {"/system", "/quotes", "/rates", "/shipments", "/ops", "/customs", "/documents",
  "/parties", "/invoices", "/billing", "/finance", "/integrations", "/platform-fees",
  "/partners", "/network"}

AudienceOf(path) ==
  CASE path = "/track" -> "customer"
    [] path \in Operational -> "operational"
    [] OTHER -> "shared"

HomeFor(type) == IF type = "CUSTOMER" THEN "/track" ELSE "/"

MayVisit(type, path) ==
  CASE AudienceOf(path) = "customer" -> type = "CUSTOMER"
    [] AudienceOf(path) = "operational" -> type # "CUSTOMER"
    [] OTHER -> TRUE
=============================================================================
