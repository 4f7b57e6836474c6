----------------------------- MODULE AuthProofs -----------------------------
(***************************************************************************)
(* Proofs about module Auth, for any set of configurations, environments,  *)
(* tokens and requests.                                                    *)
(***************************************************************************)
EXTENDS Auth, SequenceTheorems, WellFoundedInduction, TLAPS

(***************************************************************************)
(* Who serves does so with a configuration that was validated and with the *)
(* manager made of it; what was served is what this manager allows.        *)
(***************************************************************************)
ConfigOK ==
  /\ phase = "load" => cfg \in Config
  /\ phase \in {"build", "serve"} => Validate(cfg)
  /\ cfg.tenants \in Seq(TenantConfig)

ManagerOK == phase = "serve" => manager = NewManager(cfg)

ExchangeOK ==
  exchange.outcome = "served" =>
    /\ phase = "serve" /\ exchange.request \in Requests
    /\ \A r \in Requests :
         exchange.request = r =>
           IF Checked(r) THEN exchange.identity \in Authenticated(r)
           ELSE exchange.identity = Anonymous

IInv == ConfigOK /\ ManagerOK /\ ExchangeOK

(***************************************************************************)
(* The environment leaves the tenants of a configuration alone.            *)
(***************************************************************************)
LEMMA TenantsKept ==
  ASSUME NEW c \in AuthConfig, NEW env PROVE ApplyEnv(c, env).tenants = c.tenants
BY DEF ApplyEnv, AuthConfig

(***************************************************************************)
(* While the process serves, configuration and manager do not change, and  *)
(* so neither does what they allow.                                        *)
(***************************************************************************)
LEMMA AllowedKept ==
  ASSUME UNCHANGED <<cfg, manager>>, NEW r
  PROVE  /\ Authenticated(r)' = Authenticated(r)
         /\ Checked(r)' = Checked(r)
BY DEF Authenticated, Checked, AuthenticateProxy, AuthenticateAdmin, StaticProxyTenant,
       TenantsOfKey, HasAdminKey, CanVerify, TenantFromToken, HasAdminGroup, KnownTenant,
       StringClaim, ClaimOf, BearerToken, ProxyIdentity, AdminIdentity, IsProxyRoute,
       IsAdminRoute, IsPublicRoute, TrimSpace, Absent

(***************************************************************************)
(* The inductive invariant holds at the start and is kept by every step of *)
(* startup and by every request.                                           *)
(***************************************************************************)
THEOREM Inductive == Spec => []IInv
<1>1. Init => IInv
  <2> SUFFICES ASSUME Init PROVE IInv
    OBVIOUS
  <2>1. cfg \in AuthConfig
    BY AuthAssumption DEF Init
  <2>2. cfg.tenants \in Seq(TenantConfig)
    BY <2>1 DEF AuthConfig
  <2>3. exchange.outcome # "served"
    BY DEF Init, NoExchange
  <2> QED
    BY <2>2, <2>3 DEF Init, IInv, ConfigOK, ManagerOK, ExchangeOK
<1>2. IInv /\ [Next]_vars => IInv'
  <2> SUFFICES ASSUME IInv, [Next]_vars PROVE IInv'
    OBVIOUS
  <2>1. ASSUME NEW env \in Env, Load(env) PROVE IInv'
    <3>1. cfg \in AuthConfig
      BY <2>1, AuthAssumption DEF Load, IInv, ConfigOK
    <3>2. cfg'.tenants \in Seq(TenantConfig)
      BY <2>1, <3>1, TenantsKept DEF Load, IInv, ConfigOK
    <3>3. phase' \in {"build", "failed"} /\ (phase' = "build" => Validate(cfg'))
      BY <2>1 DEF Load
    <3>4. Validate(cfg)' = Validate(cfg')
      OBVIOUS
    <3>5. exchange.outcome # "served" /\ exchange' = exchange
      BY <2>1 DEF Load, IInv, ExchangeOK
    <3> QED
      BY <3>2, <3>3, <3>4, <3>5 DEF IInv, ConfigOK, ManagerOK, ExchangeOK
  <2>2. CASE Build
    BY <2>2 DEF Build, IInv, ConfigOK, ManagerOK, ExchangeOK
  <2>3. CASE DiscoveryFails
    BY <2>3 DEF DiscoveryFails, IInv, ConfigOK, ManagerOK, ExchangeOK
  <2>4. ASSUME NEW r \in Requests, PassThrough(r) \/ Authenticate(r) \/ Refuse(r)
        PROVE  IInv'
    <3>1. phase = "serve" /\ UNCHANGED <<phase, cfg, manager>>
      BY <2>4 DEF PassThrough, Authenticate, Refuse, Receives, Served, Unauthorized, Reply
    <3>2. ConfigOK' /\ ManagerOK'
      BY <3>1 DEF IInv, ConfigOK, ManagerOK
    <3>3. exchange'.outcome = "served" => exchange'.request = r
      BY <2>4 DEF PassThrough, Authenticate, Refuse, Served, Unauthorized, Reply
    <3>4. exchange'.outcome = "served" =>
            IF Checked(r) THEN exchange'.identity \in Authenticated(r)
            ELSE exchange'.identity = Anonymous
      BY <2>4 DEF PassThrough, Authenticate, Refuse, Served, Unauthorized, Reply, Checked
    <3>5. Authenticated(r)' = Authenticated(r) /\ Checked(r)' = Checked(r)
      BY <3>1, AllowedKept
    <3> QED
      BY <3>1, <3>2, <3>3, <3>4, <3>5 DEF IInv, ExchangeOK
  <2>5. CASE NextRequest
    BY <2>5 DEF NextRequest, NoExchange, IInv, ConfigOK, ManagerOK, ExchangeOK
  <2>6. CASE UNCHANGED vars
    <3>1. \A r \in Requests : Authenticated(r)' = Authenticated(r) /\ Checked(r)' = Checked(r)
      BY <2>6, AllowedKept DEF vars
    <3> QED
      BY <2>6, <3>1 DEF vars, IInv, ConfigOK, ManagerOK, ExchangeOK
  <2> QED
    BY <2>1, <2>2, <2>3, <2>4, <2>5, <2>6 DEF Next
<1> QED
  BY <1>1, <1>2, PTL DEF Spec

----------------------------------------------------------------------------
(***************************************************************************)
(* The key of a tenant found in the map made by NewManager is listed for   *)
(* this tenant in the configuration.                                       *)
(***************************************************************************)
LEMMA KeyIsListed ==
  ASSUME NEW key, NEW tenant \in TenantsOfKey(key), manager = NewManager(cfg)
  PROVE  \E i \in Lists(cfg) : key \in ProxyKeysOf(cfg, i) /\ TenantOf(cfg, i) = tenant
<1>1. manager.proxyKeys = ProxyKeys(cfg)
  BY DEF NewManager
<1>2. PICK g \in ProxyKeys(cfg) : g.key = key /\ g.tenant = tenant
  BY <1>1 DEF TenantsOfKey
<1>3. PICK i \in Lists(cfg) : g \in {Grant(cfg, i, k) : k \in KeysLeftTo(cfg, i)}
  BY <1>2 DEF ProxyKeys
<1>4. PICK k \in ProxyKeysOf(cfg, i) : g = Grant(cfg, i, k)
  BY <1>3 DEF KeysLeftTo
<1>5. g.key = k /\ g.tenant = TenantOf(cfg, i)
  BY <1>4 DEF Grant
<1> QED
  BY <1>2, <1>4, <1>5

(***************************************************************************)
(* Tenant isolation: with authentication on, a chat request acts for a     *)
(* tenant only with a key listed for it or a token that may name it, for   *)
(* all configurations that pass Validate.                                  *)
(***************************************************************************)
THEOREM TenantsIsolated == Spec => []TenantEntitled
<1>1. IInv => TenantEntitled
  <2> SUFFICES ASSUME IInv, ChatServed, cfg.enabled
               PROVE  \/ \E i \in ListsPresented(exchange.request) :
                           TenantOf(cfg, i) = exchange.identity.tenant
                      \/ TokenEntitles(exchange.request, exchange.identity.tenant)
    BY DEF TenantEntitled
  <2>1. PICK r \in Requests : r = exchange.request
    BY DEF IInv, ExchangeOK, ChatServed
  <2>2. manager = NewManager(cfg) /\ exchange.identity \in AuthenticateProxy(r)
    BY <2>1 DEF IInv, ManagerOK, ExchangeOK, ChatServed, Checked, Authenticated,
                IsProxyRoute, IsPublicRoute
  <2>3. CASE StaticProxyTenant(r) # {}
    <3>1. exchange.identity.tenant \in StaticProxyTenant(r)
      BY <2>2, <2>3 DEF AuthenticateProxy, ProxyIdentity
    <3>2. PICK key \in {TrimSpace(r.apiKey), BearerToken(r)} :
                 exchange.identity.tenant \in TenantsOfKey(key)
      BY <3>1 DEF StaticProxyTenant
    <3>3. PICK i \in Lists(cfg) :
                 key \in ProxyKeysOf(cfg, i) /\ TenantOf(cfg, i) = exchange.identity.tenant
      <4>1. PICK t : t = exchange.identity.tenant
        OBVIOUS
      <4> QED BY <2>2, <3>2, <4>1, KeyIsListed
    <3> QED
      BY <2>1, <3>2, <3>3 DEF ListsPresented
  <2>4. CASE StaticProxyTenant(r) = {}
    <3>1. /\ CanVerify(BearerToken(r))
          /\ exchange.identity.tenant \in TenantFromToken(BearerToken(r))
      BY <2>2, <2>4 DEF AuthenticateProxy, ProxyIdentity
    <3>2. manager.oidc = cfg.oidc.enabled
      BY <2>2 DEF NewManager
    <3>3. manager.knownTenants = {TrimSpace(cfg.tenants[i].id) : i \in DOMAIN cfg.tenants} \ {""}
      BY <2>2 DEF NewManager
    <3>4. "" \notin {TrimSpace(cfg.tenants[i].id) : i \in DOMAIN cfg.tenants}
      BY DEF IInv, ConfigOK, ExchangeOK, ChatServed, Validate, ValidateTenants
    <3>5. manager.knownTenants = {TrimSpace(cfg.tenants[i].id) : i \in DOMAIN cfg.tenants}
      BY <3>3, <3>4
    <3> QED
      BY <2>1, <3>1, <3>2, <3>5 DEF TokenEntitles, CanVerify, TenantFromToken, KnownTenant
  <2> QED
    BY <2>3, <2>4
<1> QED
  BY <1>1, Inductive, PTL

(***************************************************************************)
(* With authentication on, admin routes and /metrics answer only a holder  *)
(* of an admin key or of a token with an admin group.                      *)
(***************************************************************************)
THEOREM AdminsOnly == Spec => []AdminEntitled
<1>1. IInv => AdminEntitled
  <2> SUFFICES ASSUME IInv, exchange.outcome = "served", cfg.enabled,
                      exchange.request.route \in {"/metrics", "/v1/admin/costs", "/v1/admin/audit"}
               PROVE  AdminEntitled
    BY DEF AdminEntitled
  <2>1. PICK r \in Requests : r = exchange.request
    BY DEF IInv, ExchangeOK
  <2>2. manager = NewManager(cfg) /\ exchange.identity \in AuthenticateAdmin(r)
    BY <2>1 DEF IInv, ManagerOK, ExchangeOK, Checked, Authenticated,
                IsProxyRoute, IsPublicRoute, IsAdminRoute
  <2>3. /\ manager.adminKeys = NonEmptyStrings(cfg.adminKeys)
        /\ manager.adminGroups = NonEmptyStrings(cfg.oidc.adminGroups)
        /\ manager.oidc = cfg.oidc.enabled
    BY <2>2 DEF NewManager
  <2>4. HasAdminKey(r) \/ (CanVerify(BearerToken(r)) /\ HasAdminGroup(BearerToken(r)))
    BY <2>2 DEF AuthenticateAdmin
  <2> QED
    BY <2>1, <2>3, <2>4 DEF AdminEntitled, HasAdminKey, CanVerify, HasAdminGroup
<1> QED
  BY <1>1, Inductive, PTL

----------------------------------------------------------------------------
(***************************************************************************)
(* A set of naturals up to n that is not empty has a largest element.      *)
(***************************************************************************)
LEMMA Largest ==
  ASSUME NEW n \in Nat, NEW T, T \subseteq 0..n, T # {}
  PROVE  \E x \in T : \A y \in T : y <= x
<1> DEFINE U == {n - x : x \in T}
<1>1. U \subseteq Nat /\ U # {}
  <2>1. ASSUME NEW u \in U PROVE u \in Nat
    <3>1. PICK x \in T : u = n - x
      OBVIOUS
    <3> QED
      BY <3>1
  <2>2. PICK x \in T : TRUE
    OBVIOUS
  <2>3. n - x \in U
    OBVIOUS
  <2> QED
    BY <2>1, <2>3
<1>2. PICK u \in U : \A v \in U : ~(<<v, u>> \in OpToRel(<, Nat))
  BY <1>1, NatLessThanWellFounded, WFMin
<1>3. \A v \in U : ~(v < u)
  BY <1>1, <1>2 DEF OpToRel
<1>4. PICK x \in T : u = n - x
  OBVIOUS
<1>5. ASSUME NEW y \in T PROVE y <= x
  <2>1. ~(n - y < u)
    BY <1>3
  <2> QED
    BY <1>4, <2>1
<1> QED
  BY <1>4, <1>5

(***************************************************************************)
(* A key that some list of the configuration holds is in the manager's     *)
(* map: of the lists that hold it there is a last one.                     *)
(***************************************************************************)
LEMMA ListedKeyIsFound ==
  ASSUME NEW c, c.tenants \in Seq(TenantConfig), NEW i \in Lists(c),
         NEW key \in ProxyKeysOf(c, i)
  PROVE  ProxyKeys(c) # {}
<1> DEFINE T == {j \in Lists(c) : key \in ProxyKeysOf(c, j)}
<1>1. Len(c.tenants) \in Nat /\ T \subseteq 0..Len(c.tenants) /\ T # {}
  <2>1. Len(c.tenants) \in Nat
    BY LenProperties
  <2>2. T \subseteq 0..Len(c.tenants)
    BY DEF Lists
  <2>3. i \in T
    OBVIOUS
  <2> QED
    BY <2>1, <2>2, <2>3
<1>2. PICK j \in T : \A k \in T : k <= j
  BY <1>1, Largest
<1>3. key \in KeysLeftTo(c, j)
  BY <1>2 DEF KeysLeftTo
<1>4. Grant(c, j, key) \in ProxyKeys(c)
  BY <1>3 DEF ProxyKeys
<1> QED
  BY <1>4

(***************************************************************************)
(* Every configuration that Validate accepts with authentication on gives  *)
(* a manager that somebody can get past: what validateAuth counts as a key *)
(* NewManager enters, though each drops blank entries by itself.           *)
(***************************************************************************)
THEOREM NobodyLockedOut == Spec => []NoLockout
<1>1. IInv => NoLockout
  <2> SUFFICES ASSUME IInv, phase = "serve", cfg.enabled
               PROVE  manager.adminKeys # {} /\ (manager.proxyKeys # {} \/ manager.oidc)
    BY DEF NoLockout
  <2>1. /\ manager.adminKeys = NonEmptyStrings(cfg.adminKeys)
        /\ manager.proxyKeys = ProxyKeys(cfg)
        /\ manager.oidc = cfg.oidc.enabled
    <3>1. manager = NewManager(cfg)
      BY DEF IInv, ManagerOK
    <3> QED
      BY <3>1 DEF NewManager
  <2>2. /\ NonEmptyStrings(cfg.adminKeys) # {}
        /\ \/ NonEmptyStrings(cfg.proxyKeys) # {}
           \/ HasTenantProxyKeys(cfg.tenants)
           \/ cfg.oidc.enabled
    BY DEF IInv, ConfigOK, Validate, ValidateAuth
  <2>3. PICK c : c = cfg
    OBVIOUS
  <2>4. c.tenants \in Seq(TenantConfig) /\ Len(c.tenants) \in Nat
    BY <2>3, LenProperties DEF IInv, ConfigOK
  <2>5. ASSUME NonEmptyStrings(c.proxyKeys) # {} PROVE ProxyKeys(c) # {}
    <3>1. 0 \in Lists(c)
      <4>1. 0 \in 0..Len(c.tenants)
        BY <2>4
      <4>2. TenantOf(c, 0) # ""
        BY AuthAssumption DEF TenantOf
      <4> QED
        BY <4>1, <4>2 DEF Lists
    <3>2. ProxyKeysOf(c, 0) # {}
      BY <2>5 DEF ProxyKeysOf
    <3> QED
      BY <2>4, <3>1, <3>2, ListedKeyIsFound
  <2>6. ASSUME HasTenantProxyKeys(c.tenants) PROVE ProxyKeys(c) # {}
    <3>1. PICK i \in DOMAIN c.tenants : NonEmptyStrings(c.tenants[i].proxyKeys) # {}
      BY <2>6 DEF HasTenantProxyKeys
    <3>2. i \in 1..Len(c.tenants)
      BY <2>4, <3>1, LenProperties
    <3>3. TrimSpace(c.tenants[i].id) # ""
      BY <2>3, <3>1 DEF IInv, ConfigOK, Validate, ValidateTenants
    <3>4. i \in Lists(c) /\ i # 0
      <4>1. i \in 0..Len(c.tenants) /\ i # 0
        BY <2>4, <3>2
      <4>2. TenantOf(c, i) # ""
        BY <3>3, <4>1 DEF TenantOf
      <4> QED
        BY <4>1, <4>2 DEF Lists
    <3>5. ProxyKeysOf(c, i) # {}
      BY <3>1, <3>4 DEF ProxyKeysOf
    <3> QED
      BY <2>4, <3>4, <3>5, ListedKeyIsFound
  <2> QED
    BY <2>1, <2>2, <2>3, <2>5, <2>6
<1> QED
  BY <1>1, Inductive, PTL

(***************************************************************************)
(* A key is charged to the section that lists it: ids that validateTenants *)
(* told apart once trimmed cannot be mixed up by whoever reads them as     *)
(* they were written.                                                      *)
(***************************************************************************)
THEOREM OwnBudget == Spec => []BudgetOfItsSection
<1>1. IInv => BudgetOfItsSection
  <2> SUFFICES ASSUME IInv, ChatServed, exchange.identity.method = "api_key"
               PROVE  \E i \in ListsPresented(exchange.request) :
                        /\ TenantOf(cfg, i) = exchange.identity.tenant
                        /\ i # 0 => BudgetsFor(exchange.identity.tenant)
                                      \subseteq {GlobalBudget, cfg.tenants[i].budget}
    BY DEF BudgetOfItsSection
  <2>1. PICK r \in Requests : r = exchange.request
    BY DEF IInv, ExchangeOK, ChatServed
  <2>2. Checked(r)
    BY <2>1 DEF IInv, ExchangeOK, ChatServed, Anonymous
  <2>3. /\ manager = NewManager(cfg) /\ exchange.identity \in AuthenticateProxy(r)
        /\ ValidateTenants(cfg.tenants)
    BY <2>1, <2>2 DEF IInv, ManagerOK, ConfigOK, ExchangeOK, ChatServed, Authenticated, Validate
  <2>4. exchange.identity.tenant \in StaticProxyTenant(r)
    BY <2>3 DEF AuthenticateProxy, ProxyIdentity
  <2>5. PICK t, key : /\ t = exchange.identity.tenant /\ t \in TenantsOfKey(key)
                      /\ key \in {TrimSpace(r.apiKey), BearerToken(r)}
    BY <2>4 DEF StaticProxyTenant
  <2>6. PICK i \in Lists(cfg) : key \in ProxyKeysOf(cfg, i) /\ TenantOf(cfg, i) = t
    BY <2>3, <2>5, KeyIsListed
  <2>7. i \in ListsPresented(r)
    BY <2>5, <2>6 DEF ListsPresented
  <2>8. ASSUME i # 0 PROVE BudgetsFor(t) \subseteq {GlobalBudget, cfg.tenants[i].budget}
    <3>1. i \in DOMAIN cfg.tenants /\ TrimSpace(cfg.tenants[i].id) = t
      <4>1. i \in 0..Len(cfg.tenants) /\ DOMAIN cfg.tenants = 1..Len(cfg.tenants)
            /\ Len(cfg.tenants) \in Nat
        BY LenProperties DEF Lists, IInv, ConfigOK
      <4> QED BY <2>6, <2>8, <4>1 DEF TenantOf
    <3>2. ASSUME NEW j \in DOMAIN cfg.tenants, cfg.tenants[j].id = Bare(t) PROVE j = i
      <4>1. TrimSpace(cfg.tenants[j].id) = t
        BY <3>2 DEF TrimSpace, Bare
      <4> QED BY <2>3, <3>1, <4>1 DEF ValidateTenants
    <3> QED BY <3>2 DEF BudgetsFor
  <2> QED BY <2>1, <2>5, <2>6, <2>7, <2>8
<1> QED
  BY <1>1, Inductive, PTL

----------------------------------------------------------------------------
(***************************************************************************)
(* Induction over the naturals: G holds the numbers for which what is to   *)
(* be shown holds.                                                         *)
(***************************************************************************)
LEMMA NaturalInduction ==
  ASSUME NEW G, 0 \in G, \A n \in Nat : n \in G => n + 1 \in G
  PROVE  Nat \subseteq G
<1> DEFINE Bad == Nat \ G
<1> SUFFICES ASSUME Bad # {} PROVE FALSE
  OBVIOUS
<1>1. PICK n \in Bad : \A m \in Bad : ~(<<m, n>> \in OpToRel(<, Nat))
  BY NatLessThanWellFounded, WFMin
<1>2. n \in Nat /\ n # 0 /\ n \notin G
  OBVIOUS
<1>3. n - 1 \in Nat /\ (n - 1) + 1 = n /\ n - 1 < n
  BY <1>2
<1>4. n - 1 \in Bad
  BY <1>2, <1>3
<1>5. <<n - 1, n>> \in OpToRel(<, Nat)
  BY <1>2, <1>3 DEF OpToRel
<1> QED
  BY <1>1, <1>4, <1>5

(***************************************************************************)
(* The loop of appendEnvKeys over the comma-separated keys, and that it    *)
(* has a result.                                                           *)
(***************************************************************************)
Loop(keys, raw, dst, i) ==
  IF i = 0 THEN keys
  ELSE IF TrimSpace(raw[i]) # "" THEN Append(dst[i - 1], Bare(TrimSpace(raw[i])))
  ELSE dst[i - 1]
Runs(keys, raw, n, dst) == dst = [i \in 0..n |-> Loop(keys, raw, dst, i)]

(***************************************************************************)
(* The loop can be run for any number of entries: some list of successive  *)
(* results exists that follows it step by step (env.go appendEnvKeys).     *)
(***************************************************************************)
LEMMA LoopRuns ==
  ASSUME NEW keys, NEW raw, NEW n \in Nat
  PROVE  \E dst : Runs(keys, raw, n, dst)
<1> DEFINE R(m, dst) == Runs(keys, raw, m, dst)
           L(dst, i) == Loop(keys, raw, dst, i)
           G == {m \in Nat : \E dst : R(m, dst)}
<1>1. 0 \in G
  <2> DEFINE dst == [i \in 0..0 |-> keys]
  <2>1. R(0, dst)
    BY DEF Runs, Loop
  <2> QED BY <2>1
<1>2. ASSUME NEW m \in Nat, m \in G PROVE m + 1 \in G
  <2>1. PICK dst : R(m, dst)
    BY <1>2
  <2> DEFINE more == [i \in 0..(m + 1) |-> L(dst, i)]
  <2>2. ASSUME NEW i \in 0..(m + 1) PROVE L(more, i) = L(dst, i)
    <3>1. CASE i = 0
      BY <3>1 DEF Loop
    <3>2. CASE i # 0
      <4>1. i - 1 \in 0..m /\ i - 1 \in 0..(m + 1)
        BY <3>2
      <4>2. more[i - 1] = dst[i - 1]
        BY <2>1, <4>1 DEF Runs
      <4> HIDE DEF more
      <4> QED BY <3>2, <4>2 DEF Loop
    <3> QED BY <3>1, <3>2
  <2>3. more = [i \in 0..(m + 1) |-> L(more, i)]
    BY <2>2
  <2> HIDE DEF more
  <2>4. R(m + 1, more)
    BY <2>3 DEF Runs
  <2> QED BY <2>4
<1>3. Nat \subseteq G
  <2> HIDE DEF G
  <2> QED BY <1>1, <1>2, NaturalInduction
<1> QED BY <1>3

(***************************************************************************)
(* What the environment adds to a list of keys are written strings.        *)
(***************************************************************************)
LEMMA EnvKeysType ==
  ASSUME NEW keys \in Seq(Written), NEW raw \in Seq(Written)
  PROVE  AppendEnvKeys(keys, raw) \in Seq(Written)
<1> DEFINE n == Len(raw)
           dst == CHOOSE d : Runs(keys, raw, n, d)
<1>1. n \in Nat /\ \A i \in 1..n : raw[i] \in Written
  <2>1. ASSUME NEW R, NEW e \in Seq(R) PROVE Len(e) \in Nat /\ \A i \in 1..Len(e) : e[i] \in R
    OBVIOUS
  <2> QED BY <2>1
<1>2. AppendEnvKeys(keys, raw) = dst[n]
  BY DEF AppendEnvKeys, Runs, Loop
<1>3. Runs(keys, raw, n, dst)
  BY <1>1, LoopRuns
<1>4. ASSUME NEW w \in Written PROVE Bare(TrimSpace(w)) \in Written
  BY DEF Written, Bare, TrimSpace
<1> HIDE DEF dst
<1> DEFINE G == {m \in Nat : m <= n => dst[m] \in Seq(Written)}
<1>5. 0 \in G
  <2>1. 0 \in 0..n
    BY <1>1
  <2>2. dst[0] = Loop(keys, raw, dst, 0)
    BY <1>3, <2>1 DEF Runs
  <2> QED BY <2>2 DEF Loop
<1>6. ASSUME NEW m \in Nat, m \in G PROVE m + 1 \in G
  <2> SUFFICES ASSUME m + 1 <= n PROVE dst[m + 1] \in Seq(Written)
    OBVIOUS
  <2>1. dst[m] \in Seq(Written) /\ m + 1 \in 0..n /\ m + 1 \in 1..n
    BY <1>1, <1>6
  <2>2. dst[m + 1] = Loop(keys, raw, dst, m + 1)
    BY <1>3, <2>1 DEF Runs
  <2>3. (m + 1) - 1 = m /\ m + 1 # 0
    OBVIOUS
  <2>4. dst[m + 1] = Append(dst[m], Bare(TrimSpace(raw[m + 1]))) \/ dst[m + 1] = dst[m]
    BY <2>2, <2>3 DEF Loop
  <2>5. Bare(TrimSpace(raw[m + 1])) \in Written
    BY <1>1, <1>4, <2>1
  <2>6. ASSUME NEW R, NEW e \in Seq(R), NEW x \in R PROVE Append(e, x) \in Seq(R)
    OBVIOUS
  <2> QED BY <2>1, <2>4, <2>5, <2>6
<1>7. Nat \subseteq G
  <2> HIDE DEF G
  <2> QED BY <1>5, <1>6, NaturalInduction
<1>8. n \in G
  BY <1>1, <1>7
<1> QED BY <1>1, <1>2, <1>8

(***************************************************************************)
(* The environment makes a configuration of a configuration.               *)
(***************************************************************************)
LEMMA ApplyEnvType ==
  ASSUME NEW c \in AuthConfig, NEW env \in Environment
  PROVE  ApplyEnv(c, env) \in AuthConfig
<1>1. /\ c.proxyKeys \in Seq(Written) /\ c.adminKeys \in Seq(Written) /\ c.oidc \in OIDCConfig
      /\ env.proxyKeys \in Seq(Written) /\ env.adminKeys \in Seq(Written)
      /\ env.issuer \in Written /\ env.client \in Written /\ env.tenantClaim \in Written
  BY DEF AuthConfig, Environment
<1>2. PICK p, a : /\ p = AppendEnvKeys(c.proxyKeys, env.proxyKeys)
                  /\ a = AppendEnvKeys(c.adminKeys, env.adminKeys)
  OBVIOUS
<1>3. p \in Seq(Written) /\ a \in Seq(Written)
  BY <1>1, <1>2, EnvKeysType
<1>4. ASSUME NEW o \in OIDCConfig PROVE ApplyOIDCEnv(o, env) \in OIDCConfig
  <2>1. PICK e, i, l, t : /\ e = (o.enabled \/ env.issuer # EmptyString \/ env.client # EmptyString)
                          /\ i = SetIfGiven(o.issuer, env.issuer) /\ l = SetIfGiven(o.client, env.client)
                          /\ t = SetIfGiven(o.tenantClaim, env.tenantClaim)
    OBVIOUS
  <2>2. e \in BOOLEAN /\ i \in Written /\ l \in Written /\ t \in Written
    BY <1>1, <2>1 DEF SetIfGiven, OIDCConfig
  <2>3. ApplyOIDCEnv(o, env)
        = [o EXCEPT !.enabled = e, !.issuer = i, !.client = l, !.tenantClaim = t]
    BY <2>1 DEF ApplyOIDCEnv
  <2>4. [o EXCEPT !.enabled = e, !.issuer = i, !.client = l, !.tenantClaim = t] \in OIDCConfig
    BY <2>2 DEF OIDCConfig
  <2> QED BY <2>3, <2>4
<1>5. PICK q : q = ApplyOIDCEnv(c.oidc, env)
  OBVIOUS
<1>6. q \in OIDCConfig
  BY <1>1, <1>4, <1>5
<1>7. ApplyEnv(c, env) = [c EXCEPT !.proxyKeys = p, !.adminKeys = a, !.oidc = q]
  BY <1>2, <1>5 DEF ApplyEnv
<1> QED BY <1>3, <1>6, <1>7 DEF AuthConfig

(***************************************************************************)
(* Trimming: what is left of written strings, once the empty one is gone,  *)
(* are words.                                                              *)
(***************************************************************************)
LEMMA TrimmedType ==
  /\ \A w \in Written : TrimSpace(w) \in Word \cup {""}
  /\ \A list \in Seq(Written) : NonEmptyStrings(list) \subseteq Word
<1>1. \A w \in Written : TrimSpace(w) \in Word \cup {""}
  BY DEF Written, TrimSpace
<1>2. ASSUME NEW list \in Seq(Written) PROVE NonEmptyStrings(list) \subseteq Word
  <2>1. ASSUME NEW R, NEW e \in Seq(R) PROVE \A i \in DOMAIN e : e[i] \in R
    OBVIOUS
  <2>2. \A i \in DOMAIN list : list[i] \in Written
    BY <2>1
  <2> QED BY <1>1, <2>2 DEF NonEmptyStrings
<1> QED BY <1>1, <1>2

(***************************************************************************)
(* A list of keys that is not the first is a tenant's.                     *)
(***************************************************************************)
LEMMA TenantNumber == ASSUME NEW n \in Nat, NEW j \in 0..n, j # 0 PROVE j \in 1..n
OBVIOUS

(***************************************************************************)
(* The manager made of a configuration.                                    *)
(***************************************************************************)
ManagerType ==
  [proxyKeys : SUBSET [key : Word, tenant : Word],
   adminKeys : SUBSET Word, knownTenants : SUBSET Word, oidc : BOOLEAN,
   tenantClaim : Word \cup {"tenant"}, adminGroupClaim : Word \cup {"groups"},
   adminGroups : SUBSET Word]

(***************************************************************************)
(* NewManager builds keys, an OIDC section and budgets of their types from *)
(* any decoded configuration (manager.go NewManagerWithVerifier).          *)
(***************************************************************************)
LEMMA NewManagerType == ASSUME NEW c \in AuthConfig PROVE NewManager(c) \in ManagerType
<1>1. /\ c.proxyKeys \in Seq(Written) /\ c.adminKeys \in Seq(Written) /\ c.oidc \in OIDCConfig
      /\ c.tenants \in Seq(TenantConfig)
  BY DEF AuthConfig
<1>2. /\ c.oidc.enabled \in BOOLEAN /\ c.oidc.tenantClaim \in Written
      /\ c.oidc.adminGroupClaim \in Written /\ c.oidc.adminGroups \in Seq(Written)
  BY <1>1 DEF OIDCConfig
<1>3. /\ DOMAIN c.tenants = 1..Len(c.tenants)
      /\ \A i \in DOMAIN c.tenants : c.tenants[i].id \in Written /\ c.tenants[i].proxyKeys \in Seq(Written)
  <2>1. ASSUME NEW R, NEW e \in Seq(R)
        PROVE  DOMAIN e = 1..Len(e) /\ \A i \in DOMAIN e : e[i] \in R
    OBVIOUS
  <2>2. \A t \in TenantConfig : t.id \in Written /\ t.proxyKeys \in Seq(Written)
    BY DEF TenantConfig
  <2>3. DOMAIN c.tenants = 1..Len(c.tenants) /\ \A i \in DOMAIN c.tenants : c.tenants[i] \in TenantConfig
    BY <1>1, <2>1
  <2> QED BY <2>2, <2>3
<1>4. ASSUME NEW i \in Lists(c) PROVE ProxyKeysOf(c, i) \subseteq Word /\ TenantOf(c, i) \in Word
  <2>1. CASE i = 0
    BY <1>1, <2>1, TrimmedType, AuthAssumption DEF ProxyKeysOf, TenantOf
  <2>2. CASE i # 0
    <3>1. i \in DOMAIN c.tenants /\ TenantOf(c, i) # ""
      <4>1. Len(c.tenants) \in Nat
        BY <1>1, LenProperties
      <4>2. i \in 0..Len(c.tenants) /\ TenantOf(c, i) # ""
        BY DEF Lists
      <4>3. i \in 1..Len(c.tenants)
        BY <2>2, <4>1, <4>2, TenantNumber
      <4> QED BY <1>3, <4>2, <4>3
    <3>2. TrimSpace(c.tenants[i].id) \in Word \cup {""}
      BY <1>3, <3>1, TrimmedType
    <3>3. TenantOf(c, i) \in Word
      BY <2>2, <3>1, <3>2 DEF TenantOf
    <3>4. NonEmptyStrings(c.tenants[i].proxyKeys) \subseteq Word
      BY <1>3, <3>1, TrimmedType
    <3> QED BY <2>2, <3>3, <3>4 DEF ProxyKeysOf
  <2> QED BY <2>1, <2>2
<1>5. ProxyKeys(c) \subseteq [key : Word, tenant : Word]
  <2> SUFFICES ASSUME NEW g \in ProxyKeys(c) PROVE g \in [key : Word, tenant : Word]
    OBVIOUS
  <2>1. PICK i \in Lists(c) : g \in {Grant(c, i, k) : k \in KeysLeftTo(c, i)}
    BY DEF ProxyKeys
  <2>2. PICK k \in ProxyKeysOf(c, i) : g = Grant(c, i, k)
    BY <2>1 DEF KeysLeftTo
  <2> QED BY <1>4, <2>2 DEF Grant
<1>6. NonEmptyStrings(c.adminKeys) \subseteq Word /\ NonEmptyStrings(c.oidc.adminGroups) \subseteq Word
  BY <1>1, <1>2, TrimmedType
<1>7. {TrimSpace(c.tenants[i].id) : i \in DOMAIN c.tenants} \ {""} \subseteq Word
  BY <1>3, TrimmedType
<1>8. /\ ClaimOrDefault(c.oidc.tenantClaim, "tenant") \in Word \cup {"tenant"}
      /\ ClaimOrDefault(c.oidc.adminGroupClaim, "groups") \in Word \cup {"groups"}
  BY <1>2, TrimmedType DEF ClaimOrDefault
<1> QED BY <1>2, <1>5, <1>6, <1>7, <1>8 DEF NewManager, ManagerType

(***************************************************************************)
(* Whoever is let in has a tenant.                                         *)
(***************************************************************************)
LEMMA IdentityType ==
  ASSUME manager \in ManagerType, NEW r \in Requests
  PROVE  Authenticated(r) \subseteq Identity
<1>1. \A key : TenantsOfKey(key) \subseteq Word
  BY DEF TenantsOfKey, ManagerType
<1>2. StaticProxyTenant(r) \subseteq Word
  BY <1>1 DEF StaticProxyTenant
<1>3. ASSUME NEW raw, CanVerify(raw) PROVE TenantFromToken(raw) \subseteq Word
  <2>1. PICK claim : claim = ClaimOf(raw, manager.tenantClaim)
    OBVIOUS
  <2>2. claim = Absent \/ (claim.kind = "string" => \E s \in Written : claim.strings = {s})
    BY <1>3, <2>1, AuthAssumption DEF CanVerify, ClaimOf
  <2>3. StringClaim(claim) \in Word \cup {""}
    <3>1. CASE claim.kind = "string"
      <4>1. PICK s \in Written : claim.strings = {s}
        BY <2>2, <3>1 DEF Absent
      <4>2. (CHOOSE x \in claim.strings : TRUE) = s
        BY <4>1
      <4> QED BY <3>1, <4>1, <4>2, TrimmedType DEF StringClaim
    <3>2. CASE claim.kind # "string"
      BY <3>2 DEF StringClaim
    <3> QED BY <3>1, <3>2
  <2> QED BY <2>1, <2>3, AuthAssumption DEF TenantFromToken
<1>4. \A t \in Word : ProxyIdentity(t, "api_key") \in Identity /\ ProxyIdentity(t, "oidc") \in Identity
  BY DEF ProxyIdentity, Identity
<1>5. AdminIdentity("admin_api_key") \in Identity /\ AdminIdentity("oidc") \in Identity
  BY AuthAssumption DEF AdminIdentity, Identity
<1>6. AuthenticateProxy(r) \subseteq Identity
  <2>1. CASE StaticProxyTenant(r) # {}
    BY <1>2, <1>4, <2>1 DEF AuthenticateProxy
  <2>2. CASE StaticProxyTenant(r) = {} /\ CanVerify(BearerToken(r))
    <3>1. TenantFromToken(BearerToken(r)) \subseteq Word
      BY <1>3, <2>2
    <3> QED BY <1>4, <2>2, <3>1 DEF AuthenticateProxy
  <2>3. CASE StaticProxyTenant(r) = {} /\ ~CanVerify(BearerToken(r))
    BY <2>3 DEF AuthenticateProxy
  <2> QED BY <2>1, <2>2, <2>3
<1>7. AuthenticateAdmin(r) \subseteq Identity
  BY <1>5 DEF AuthenticateAdmin
<1> QED BY <1>6, <1>7 DEF Authenticated

(***************************************************************************)
(* Types: whatever was written in the file and in the environment, keys,   *)
(* groups and tenants are trimmed and never empty in the manager, and an   *)
(* identity always has a tenant.                                           *)
(***************************************************************************)
THEOREM TypeCorrect == Spec => []TypeOK
<1>1. Init => TypeOK
  <2> SUFFICES ASSUME Init PROVE TypeOK
    OBVIOUS
  <2>1. NoManager \in ManagerType
    BY DEF NoManager, ManagerType
  <2> QED BY <2>1, AuthAssumption DEF Init, TypeOK, ManagerType, Exchange, NoExchange
<1>2. TypeOK /\ [Next]_vars => TypeOK'
  <2> SUFFICES ASSUME TypeOK, [Next]_vars PROVE TypeOK'
    OBVIOUS
  <2>0. /\ phase \in {"load", "build", "serve", "failed"} /\ cfg \in AuthConfig
        /\ manager \in ManagerType /\ exchange \in Exchange
    BY DEF TypeOK, ManagerType
  <2>1. ASSUME NEW env \in Env, Load(env) PROVE TypeOK'
    <3>1. ApplyEnv(cfg, env) \in AuthConfig
      BY <2>0, ApplyEnvType, AuthAssumption
    <3> QED BY <2>0, <2>1, <3>1 DEF Load, TypeOK, ManagerType
  <2>2. CASE Build
    <3>1. manager' \in ManagerType
      BY <2>0, <2>2, NewManagerType DEF Build
    <3> QED BY <2>0, <2>2, <3>1 DEF Build, TypeOK, ManagerType
  <2>3. CASE DiscoveryFails
    BY <2>0, <2>3 DEF DiscoveryFails, TypeOK, ManagerType
  <2>4. ASSUME NEW r \in Requests, PassThrough(r) \/ Authenticate(r) \/ Refuse(r)
        PROVE  TypeOK'
    <3>1. Anonymous \in Identity
      BY AuthAssumption DEF Anonymous, Identity
    <3>2. Authenticated(r) \subseteq Identity
      BY <2>0, IdentityType
    <3>3. exchange' \in Exchange
      <4>1. CASE PassThrough(r)
        BY <3>1, <4>1 DEF PassThrough, Served, Reply, Exchange
      <4>2. CASE Authenticate(r)
        BY <3>2, <4>2 DEF Authenticate, Served, Reply, Exchange
      <4>3. CASE Refuse(r)
        BY <4>3 DEF Refuse, Unauthorized, Reply, Exchange
      <4> QED BY <2>4, <4>1, <4>2, <4>3
    <3>4. UNCHANGED <<phase, cfg, manager>>
      BY <2>4 DEF PassThrough, Authenticate, Refuse, Served, Unauthorized, Reply
    <3> QED BY <2>0, <3>3, <3>4 DEF TypeOK, ManagerType
  <2>5. CASE NextRequest
    BY <2>0, <2>5 DEF NextRequest, NoExchange, Exchange, TypeOK, ManagerType
  <2>6. CASE UNCHANGED vars
    BY <2>0, <2>6 DEF vars, TypeOK, ManagerType
  <2> QED
    BY <2>1, <2>2, <2>3, <2>4, <2>5, <2>6 DEF Next
<1> QED
  BY <1>1, <1>2, PTL DEF Spec
=============================================================================
