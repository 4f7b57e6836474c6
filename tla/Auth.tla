-------------------------------- MODULE Auth --------------------------------
(***************************************************************************)
(* Who a request is: internal/authn, the middleware of gateway/auth.go,    *)
(* and the parts of internal/config they rest on.  A configuration is      *)
(* read, completed from the environment, validated and turned into the     *)
(* authentication manager; the manager, which never changes again, then    *)
(* gives each request a tenant or refuses it.                              *)
(*                                                                         *)
(* The other readers of the same configuration, the rate limiter and the   *)
(* cost tracker, look the tenant up by the identity found here.            *)
(*                                                                         *)
(* A string as somebody wrote it is a record: the word that strings.Trim-  *)
(* Space leaves of it, "" if nothing, and whether there was white space    *)
(* around it.  Two written strings are equal only if both agree.           *)
(***************************************************************************)
EXTENDS Integers, Sequences

CONSTANTS
  Word,          \* non-empty strings without white space around them
  DefaultTenant, \* authn.DefaultTenantID
  Config,        \* configuration files in play, decoded
  Env,           \* environments in play
  Tokens,        \* bearer token |-> claims, for the tokens the issuer signed
  Requests,      \* HTTP requests in play
  GlobalBudget   \* the cost section (or rate_limit section) for everyone

Written == [word : Word \cup {""}, padded : BOOLEAN]
TrimSpace(s) == s.word
Bare(w) == [word |-> w, padded |-> FALSE]
EmptyString == Bare("")

OIDCConfig == [enabled : BOOLEAN, issuer : Written, client : Written,
               tenantClaim : Written, adminGroupClaim : Written,
               adminGroups : Seq(Written)]
TenantConfig == [id : Written, proxyKeys : Seq(Written), budget : Nat]
AuthConfig == [enabled : BOOLEAN, proxyKeys : Seq(Written), adminKeys : Seq(Written),
               oidc : OIDCConfig, tenants : Seq(TenantConfig)]
Environment == [proxyKeys : Seq(Written), adminKeys : Seq(Written),
                issuer : Written, client : Written, tenantClaim : Written]

(***************************************************************************)
(* A claim is absent, a string, or a list, of which only strings count.    *)
(***************************************************************************)
Claim == [kind : {"absent", "string", "list"}, strings : SUBSET Written]
Absent == [kind |-> "absent", strings |-> {}]

Route == {"/healthz", "/metrics", "/v1/admin/costs", "/v1/admin/audit",
          "/v1/chat/completions", "/elsewhere"}
Request == [route : Route, apiKey : Written, adminKey : Written,
            scheme : {"none", "Basic", "Bearer"}, credentials : Written]

ASSUME AuthAssumption ==
  /\ DefaultTenant \in Word /\ "" \notin Word
  /\ Config \subseteq AuthConfig /\ Env \subseteq Environment
  /\ Requests \subseteq Request
  /\ DOMAIN Tokens \subseteq Word
  /\ \A raw \in DOMAIN Tokens : \A name \in DOMAIN Tokens[raw] :
       /\ Tokens[raw][name] \in Claim
       /\ Tokens[raw][name].kind = "string" => \E s \in Written : Tokens[raw][name].strings = {s}
  /\ GlobalBudget \in Nat

----------------------------------------------------------------------------
\* Mutant: what is blank once trimmed is kept.
NonEmptyStringsKept(list) == {TrimSpace(list[i]) : i \in DOMAIN list}

\* nonEmptyStrings, of config and of authn alike.
NonEmptyStrings(list) == {TrimSpace(list[i]) : i \in DOMAIN list} \ {""}

(***************************************************************************)
(* config.Load: the environment adds keys, a comma-separated list of them, *)
(* and turns OIDC on.                                                      *)
(***************************************************************************)
AppendEnvKeys(keys, raw) ==
  LET dst[i \in 0..Len(raw)] ==
        IF i = 0 THEN keys
        ELSE IF TrimSpace(raw[i]) # "" THEN Append(dst[i - 1], Bare(TrimSpace(raw[i])))
        ELSE dst[i - 1]
  IN  dst[Len(raw)]

SetIfGiven(value, given) == IF given = EmptyString THEN value ELSE given

ApplyOIDCEnv(oidc, env) ==
  [oidc EXCEPT
     !.enabled = @ \/ env.issuer # EmptyString \/ env.client # EmptyString,
     !.issuer = SetIfGiven(@, env.issuer),
     !.client = SetIfGiven(@, env.client),
     !.tenantClaim = SetIfGiven(@, env.tenantClaim)]

ApplyEnv(c, env) ==
  [c EXCEPT
     !.proxyKeys = AppendEnvKeys(@, env.proxyKeys),
     !.adminKeys = AppendEnvKeys(@, env.adminKeys),
     !.oidc = ApplyOIDCEnv(@, env)]

\* Mutant: ids are compared as they were written.
ValidateTenantsRaw(tenants) ==
  \A i, j \in DOMAIN tenants :
    TrimSpace(tenants[i].id) # "" /\ (tenants[i].id = tenants[j].id => i = j)

ValidateTenants(tenants) ==
  \A i, j \in DOMAIN tenants :
    /\ TrimSpace(tenants[i].id) # ""
    /\ TrimSpace(tenants[i].id) = TrimSpace(tenants[j].id) => i = j

HasTenantProxyKeys(tenants) ==
  \E i \in DOMAIN tenants : NonEmptyStrings(tenants[i].proxyKeys) # {}

\* Mutant: blank entries count as keys.
ValidateAuthLen(c) ==
  c.enabled =>
    /\ c.adminKeys # <<>>
    /\ c.oidc.enabled => TrimSpace(c.oidc.issuer) # "" /\ TrimSpace(c.oidc.client) # ""
    /\ c.proxyKeys # <<>> \/ HasTenantProxyKeys(c.tenants) \/ c.oidc.enabled

ValidateAuth(c) ==
  c.enabled =>
    /\ NonEmptyStrings(c.adminKeys) # {}
    /\ c.oidc.enabled => TrimSpace(c.oidc.issuer) # "" /\ TrimSpace(c.oidc.client) # ""
    /\ \/ NonEmptyStrings(c.proxyKeys) # {}
       \/ HasTenantProxyKeys(c.tenants)
       \/ c.oidc.enabled

Validate(c) == ValidateTenants(c.tenants) /\ ValidateAuth(c)

----------------------------------------------------------------------------
(***************************************************************************)
(* NewManager.  Keys are entered list by list: list 0 is auth.proxy_api_-  *)
(* keys, for the default tenant, list i that of the i-th tenant, skipped   *)
(* if its id is blank.  They go into one map, so of the lists that hold a  *)
(* key the last decides.                                                   *)
(***************************************************************************)
TenantOf(c, i) == IF i = 0 THEN DefaultTenant ELSE TrimSpace(c.tenants[i].id)
Lists(c) == {i \in 0..Len(c.tenants) : TenantOf(c, i) # ""}
ProxyKeysOf(c, i) == NonEmptyStrings(IF i = 0 THEN c.proxyKeys ELSE c.tenants[i].proxyKeys)

Grant(c, i, key) == [key |-> key, tenant |-> TenantOf(c, i)]

\* The keys of list i that no later list takes over.
KeysLeftTo(c, i) ==
  {key \in ProxyKeysOf(c, i) : \A j \in Lists(c) : key \in ProxyKeysOf(c, j) => j <= i}

ProxyKeys(c) == UNION {{Grant(c, i, key) : key \in KeysLeftTo(c, i)} : i \in Lists(c)}

ClaimOrDefault(value, fallback) ==
  IF TrimSpace(value) = "" THEN fallback ELSE TrimSpace(value)

NewManager(c) ==
  [proxyKeys |-> ProxyKeys(c),
   adminKeys |-> NonEmptyStrings(c.adminKeys),
   knownTenants |-> {TrimSpace(c.tenants[i].id) : i \in DOMAIN c.tenants} \ {""},
   oidc |-> c.oidc.enabled,
   tenantClaim |-> ClaimOrDefault(c.oidc.tenantClaim, "tenant"),
   adminGroupClaim |-> ClaimOrDefault(c.oidc.adminGroupClaim, "groups"),
   adminGroups |-> NonEmptyStrings(c.oidc.adminGroups)]

----------------------------------------------------------------------------
VARIABLES
  phase,    \* of the process: it loads, builds, serves, or gave up
  cfg,      \* its configuration
  manager,  \* its authentication manager
  exchange  \* the request at hand and what became of it

vars == <<phase, cfg, manager, exchange>>

Identity == [tenant : Word, method : {"anonymous", "api_key", "admin_api_key", "oidc"},
             admin : BOOLEAN]
Anonymous == [tenant |-> DefaultTenant, method |-> "anonymous", admin |-> FALSE]
NoExchange == [outcome |-> "none"]
Exchange == [outcome : {"none"}]
              \cup [outcome : {"served"}, request : Requests, identity : Identity]
              \cup [outcome : {"unauthorized"}, request : Requests]
NoManager == [proxyKeys |-> {}, adminKeys |-> {}, knownTenants |-> {}, oidc |-> FALSE,
              tenantClaim |-> "tenant", adminGroupClaim |-> "groups", adminGroups |-> {}]

TypeOK ==
  /\ phase \in {"load", "build", "serve", "failed"}
  /\ cfg \in AuthConfig
  /\ manager \in [proxyKeys : SUBSET [key : Word, tenant : Word],
                  adminKeys : SUBSET Word, knownTenants : SUBSET Word, oidc : BOOLEAN,
                  tenantClaim : Word \cup {"tenant"}, adminGroupClaim : Word \cup {"groups"},
                  adminGroups : SUBSET Word]
  /\ exchange \in Exchange

Init ==
  /\ phase = "load"
  /\ cfg \in Config
  /\ manager = NoManager
  /\ exchange = NoExchange

(***************************************************************************)
(* Startup: Load, then NewManager, which asks the issuer when OIDC is on,  *)
(* whether or not authentication is, and fails if it gets no answer.       *)
(***************************************************************************)
Load(env) ==
  /\ phase = "load"
  /\ cfg' = ApplyEnv(cfg, env)
  /\ phase' = IF Validate(cfg') THEN "build" ELSE "failed"
  /\ UNCHANGED <<manager, exchange>>

Build ==
  /\ phase = "build"
  /\ phase' = "serve"
  /\ manager' = NewManager(cfg)
  /\ UNCHANGED <<cfg, exchange>>

DiscoveryFails ==
  /\ phase = "build"
  /\ cfg.oidc.enabled
  /\ phase' = "failed"
  /\ UNCHANGED <<cfg, manager, exchange>>

----------------------------------------------------------------------------
(***************************************************************************)
(* The keys a request presents: its own header first, then the bearer      *)
(* token.  "" is no key, and no map or list of keys holds it.              *)
(***************************************************************************)
BearerToken(r) == IF r.scheme = "Bearer" THEN TrimSpace(r.credentials) ELSE ""

\* The tenant of a key: one or none.
TenantsOfKey(key) == {g.tenant : g \in {g \in manager.proxyKeys : g.key = key}}

StaticProxyTenant(r) ==
  IF TenantsOfKey(TrimSpace(r.apiKey)) # {} THEN TenantsOfKey(TrimSpace(r.apiKey))
  ELSE TenantsOfKey(BearerToken(r))

HasAdminKey(r) == {TrimSpace(r.adminKey), BearerToken(r)} \cap manager.adminKeys # {}

(***************************************************************************)
(* OIDC.  A token of the issuer may verify, another one cannot.  Verify    *)
(* can fail for one of the issuer's too: it has expired, or its keys could *)
(* not be fetched.                                                         *)
(***************************************************************************)
CanVerify(raw) == manager.oidc /\ raw \in DOMAIN Tokens
ClaimOf(raw, name) == IF name \in DOMAIN Tokens[raw] THEN Tokens[raw][name] ELSE Absent

StringClaim(claim) ==
  IF claim.kind = "string" THEN TrimSpace(CHOOSE s \in claim.strings : TRUE) ELSE ""

\* Mutant: any tenant that a token names is taken.
KnownTenantAny(tenant) == TRUE

KnownTenant(tenant) ==
  \/ tenant = DefaultTenant
  \/ manager.knownTenants = {}
  \/ tenant \in manager.knownTenants

\* The tenant of a token: one, or none if identityFromOIDC returns an error.
TenantFromToken(raw) ==
  LET claimed == StringClaim(ClaimOf(raw, manager.tenantClaim)) IN
    IF claimed # "" THEN {t \in {claimed} : KnownTenant(t)}
    ELSE IF manager.knownTenants = {} THEN {DefaultTenant} ELSE {}

HasAdminGroup(raw) ==
  \E g \in manager.adminGroups : Bare(g) \in ClaimOf(raw, manager.adminGroupClaim).strings

(***************************************************************************)
(* AuthenticateProxy and AuthenticateAdmin: the identities they can        *)
(* return; {} when they return none.                                       *)
(***************************************************************************)
ProxyIdentity(tenant, method) == [tenant |-> tenant, method |-> method, admin |-> FALSE]
AdminIdentity(method) == [tenant |-> DefaultTenant, method |-> method, admin |-> TRUE]

AuthenticateProxy(r) ==
  IF StaticProxyTenant(r) # {}
    THEN {ProxyIdentity(t, "api_key") : t \in StaticProxyTenant(r)}
  ELSE IF CanVerify(BearerToken(r))
    THEN {ProxyIdentity(t, "oidc") : t \in TenantFromToken(BearerToken(r))}
  ELSE {}

AuthenticateAdmin(r) ==
  IF HasAdminKey(r) THEN {AdminIdentity("admin_api_key")}
  ELSE IF CanVerify(BearerToken(r)) /\ HasAdminGroup(BearerToken(r))
    THEN {AdminIdentity("oidc")}
  ELSE {}

(***************************************************************************)
(* withAuth.  What is neither public nor a proxy or admin route is passed  *)
(* on as it is, to a mux that has no handler for it.                       *)
(***************************************************************************)
IsPublicRoute(r) == r.route = "/healthz"
IsProxyRoute(r) == r.route = "/v1/chat/completions"

\* Mutant: the metrics are forgotten.
IsAdminRouteV1(r) == r.route \in {"/v1/admin/costs", "/v1/admin/audit"}

IsAdminRoute(r) == r.route \in {"/metrics", "/v1/admin/costs", "/v1/admin/audit"}

Receives(r) == phase = "serve" /\ exchange = NoExchange

Reply(result) == exchange' = result /\ UNCHANGED <<phase, cfg, manager>>
Served(r, identity) == Reply([outcome |-> "served", request |-> r, identity |-> identity])
Unauthorized(r) == Reply([outcome |-> "unauthorized", request |-> r])

\* The handler finds no identity in the context: FromContext makes one up.
PassThrough(r) ==
  /\ Receives(r)
  /\ \/ ~cfg.enabled \/ IsPublicRoute(r)
     \/ ~IsProxyRoute(r) /\ ~IsAdminRoute(r)
  /\ Served(r, Anonymous)

Authenticated(r) ==
  IF IsProxyRoute(r) THEN AuthenticateProxy(r)
  ELSE IF IsAdminRoute(r) THEN AuthenticateAdmin(r) ELSE {}

Checked(r) == cfg.enabled /\ ~IsPublicRoute(r) /\ (IsProxyRoute(r) \/ IsAdminRoute(r))

Authenticate(r) ==
  /\ Receives(r) /\ Checked(r)
  /\ \E identity \in Authenticated(r) : Served(r, identity)

\* No identity, or an identity that rests on a token and Verify failed.
Refuse(r) ==
  /\ Receives(r) /\ Checked(r)
  /\ \A identity \in Authenticated(r) : identity.method = "oidc"
  /\ Unauthorized(r)

NextRequest ==
  /\ exchange # NoExchange
  /\ exchange' = NoExchange
  /\ UNCHANGED <<phase, cfg, manager>>

Next ==
  \/ \E env \in Env : Load(env)
  \/ Build \/ DiscoveryFails
  \/ \E r \in Requests : PassThrough(r) \/ Authenticate(r) \/ Refuse(r)
  \/ NextRequest

Spec == Init /\ [][Next]_vars

----------------------------------------------------------------------------
(***************************************************************************)
(* What tracker.go makes of the tenant it is given: the figures of the     *)
(* tenant whose id, as it was written, is that tenant, else the global     *)
(* ones.  ratelimit.New does the same with the rate_limit sections.        *)
(***************************************************************************)
BudgetsFor(tenant) ==
  LET own == {i \in DOMAIN cfg.tenants : cfg.tenants[i].id = Bare(tenant)}
      set == {i \in own : cfg.tenants[i].budget > 0}
  IN  IF set = {} THEN {GlobalBudget} ELSE {cfg.tenants[i].budget : i \in set}

----------------------------------------------------------------------------
ChatServed == exchange.outcome = "served" /\ IsProxyRoute(exchange.request)

\* The lists of the configuration that hold a key of the request.
ListsPresented(r) ==
  {i \in Lists(cfg) : {TrimSpace(r.apiKey), BearerToken(r)} \cap ProxyKeysOf(cfg, i) # {}}

\* The token of the request says, and may say, that it is of this tenant.
TokenEntitles(r, tenant) ==
  LET configured == {TrimSpace(cfg.tenants[i].id) : i \in DOMAIN cfg.tenants}
      claimed == StringClaim(ClaimOf(BearerToken(r), manager.tenantClaim))
  IN  /\ cfg.oidc.enabled /\ BearerToken(r) \in DOMAIN Tokens
      /\ tenant = IF claimed = "" THEN DefaultTenant ELSE claimed
      /\ configured # {} => claimed # "" /\ tenant \in configured \cup {DefaultTenant}

(***************************************************************************)
(* Tenant isolation (docs/security-model.md), seen from the configuration  *)
(* and not from the map made of it: with authentication on, a chat request *)
(* acts for a tenant only if it presents a key that the configuration      *)
(* lists for this tenant, or a token of the issuer that names it.          *)
(***************************************************************************)
TenantEntitled ==
  ChatServed /\ cfg.enabled =>
    \/ \E i \in ListsPresented(exchange.request) : TenantOf(cfg, i) = exchange.identity.tenant
    \/ TokenEntitles(exchange.request, exchange.identity.tenant)

(***************************************************************************)
(* With authentication on, an admin route or /metrics answers only those   *)
(* who present a configured admin key, or a token of the issuer with one   *)
(* of the configured groups.  A proxy key alone is never enough.           *)
(***************************************************************************)
AdminEntitled ==
  (/\ exchange.outcome = "served" /\ cfg.enabled
   /\ exchange.request.route \in {"/metrics", "/v1/admin/costs", "/v1/admin/audit"})
    => \/ {TrimSpace(exchange.request.adminKey), BearerToken(exchange.request)}
            \cap NonEmptyStrings(cfg.adminKeys) # {}
       \/ /\ cfg.oidc.enabled /\ BearerToken(exchange.request) \in DOMAIN Tokens
          /\ \E g \in NonEmptyStrings(cfg.oidc.adminGroups) :
               Bare(g) \in ClaimOf(BearerToken(exchange.request),
                                   manager.adminGroupClaim).strings

(***************************************************************************)
(* What Validate accepts can be used: with authentication on, the manager  *)
(* that is built knows an admin key and at least one way for a proxy       *)
(* client to come in.  The two sides, validateAuth and NewManager, drop    *)
(* blank entries each by itself.                                           *)
(***************************************************************************)
NoLockout ==
  phase = "serve" /\ cfg.enabled =>
    manager.adminKeys # {} /\ (manager.proxyKeys # {} \/ manager.oidc)

(***************************************************************************)
(* A client that comes in by a key listed for some tenant is held to the   *)
(* figures of the very section that lists the key, or to the global ones,  *)
(* never to those of another section: the ids that validateTenants told    *)
(* apart are told apart by everybody else.                                 *)
(***************************************************************************)
BudgetOfItsSection ==
  ChatServed /\ exchange.identity.method = "api_key" =>
    \E i \in ListsPresented(exchange.request) :
      /\ TenantOf(cfg, i) = exchange.identity.tenant
      /\ i # 0 => BudgetsFor(exchange.identity.tenant)
                    \subseteq {GlobalBudget, cfg.tenants[i].budget}
=============================================================================
