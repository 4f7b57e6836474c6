------------------------------- MODULE MCAuth -------------------------------
(***************************************************************************)
(* Small configurations for module Auth: up to two tenants, two proxy keys *)
(* that may be listed for nobody, one of them or both, ids, keys and lists *)
(* with white space or nothing but it, OIDC on, off and half configured,   *)
(* and requests that carry these keys and tokens in every place.           *)
(***************************************************************************)
EXTENDS Auth, TLC

MCWord == {"default", "acme", "beta", "k1", "k2", "adm", "tok", "plain", "org", "ops", "tenant"}

Padded(w) == [word |-> w, padded |-> TRUE]
Blank == Padded("")

OIDC(on, issuer) ==
  [enabled |-> on, issuer |-> issuer, client |-> Bare("beta"), tenantClaim |-> Padded("org"),
   adminGroupClaim |-> Blank, adminGroups |-> <<Padded("ops"), Blank>>]
MCOIDC == {OIDC(FALSE, EmptyString), OIDC(TRUE, Bare("acme")), OIDC(TRUE, Blank)}

Section(id, keys, budget) == [id |-> id, proxyKeys |-> keys, budget |-> budget]
MCTenants ==
  {<<>>,
   <<Section(Bare("acme"), <<Bare("k1")>>, 5), Section(Bare("beta"), <<Padded("k2")>>, 0)>>,
   <<Section(Bare("acme"), <<Blank>>, 5)>>,
   <<Section(Padded("acme"), <<Bare("k1")>>, 5), Section(Bare("acme"), <<Bare("k2")>>, 7)>>}

\* Two tenants that list the same key; a tenant with white space in its id.
SharedKey == <<Section(Bare("acme"), <<Bare("k1")>>, 5), Section(Bare("beta"), <<Bare("k1")>>, 7)>>
PaddedId == <<Section(Padded("acme"), <<Bare("k1")>>, 5)>>

Configs(enabled, proxy, admin, oidc, tenants) ==
  {[enabled |-> e, proxyKeys |-> p, adminKeys |-> a, oidc |-> o, tenants |-> t] :
     e \in enabled, p \in proxy, a \in admin, o \in oidc, t \in tenants}

MCConfig ==
  Configs(BOOLEAN, {<<>>, <<Blank>>, <<Bare("k1")>>}, {<<Blank>>, <<Padded("adm"), Blank>>},
          MCOIDC, MCTenants \cup {SharedKey, PaddedId})

NoEnv == [proxyKeys |-> <<>>, adminKeys |-> <<>>, issuer |-> EmptyString,
          client |-> EmptyString, tenantClaim |-> EmptyString]
MCEnv ==
  {NoEnv,
   [NoEnv EXCEPT !.proxyKeys = <<Padded("k2"), Blank>>, !.adminKeys = <<Bare("adm")>>],
   [NoEnv EXCEPT !.issuer = Bare("acme"), !.tenantClaim = Bare("tenant")]}

StringOf(s) == [kind |-> "string", strings |-> {s}]
\* tok names its tenant under "org" and has a group; plain has neither.
MCTokens ==
  ("tok" :> ("org" :> StringOf(Padded("acme")) @@ "groups" :> [kind |-> "list", strings |-> {Bare("ops"), Bare("acme")}]))
    @@ ("plain" :> ("org" :> [kind |-> "list", strings |-> {Bare("acme")}] @@ "tenant" :> StringOf(Bare("beta"))
                      @@ "groups" :> StringOf(Padded("ops"))))

MCRequests ==
  {[route |-> rt, apiKey |-> ak, adminKey |-> dk, scheme |-> sc[1], credentials |-> sc[2]] :
     rt \in Route \ {"/v1/admin/costs"},
     ak \in {EmptyString, Padded("k1")}, dk \in {EmptyString, Bare("adm")},
     sc \in {<<"none", EmptyString>>, <<"Basic", Bare("k1")>>, <<"Bearer", Bare("k2")>>,
             <<"Bearer", Padded("adm")>>, <<"Bearer", Bare("tok")>>, <<"Bearer", Bare("plain")>>}}
=============================================================================
