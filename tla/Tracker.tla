------------------------------ MODULE Tracker ------------------------------
(***************************************************************************)
(* The cost tracker, internal/cost/tracker.go, and its SQLite ledger.      *)
(*                                                                         *)
(* A caller asks AllowTenant before the provider is called and reports to  *)
(* RecordTenant after it.  Both price the tokens BEFORE they take the      *)
(* tracker's mutex and do everything else under it, so each is two steps:  *)
(* Estimate and then AllowX, PriceUsage and then RecordX.  Nothing is      *)
(* reserved in between: other callers, midnight, a price refresh, a crash  *)
(* of the process or an error of the ledger can fall between any two.      *)
(***************************************************************************)
EXTENDS Pricing, FiniteSets

CONSTANTS
  Tenant, DefaultTenant, NoTenant,  \* as in Limiter
  CostCfg,      \* cost section of the configuration: default budget
  TenantBudget, \* configured tenant |-> its own budget, 0 meaning unset
  Persistent,   \* the tracker has a ledger (always so in cmd/run.go)
  Request,      \* the callers: as many as can be in the handler at once
  Tokens,       \* prompt and max_tokens values in play
  Completion,   \* completion token counts that providers report
  MaxCost,      \* what one request can cost at most
  MaxDay,       \* bound: the last day of the model
  MaxSetbacks,  \* bound: how often the clock is set back over midnight
  MaxSpend      \* bound: a tenant beyond this makes no new request

Budget == [daily : Nat, perReq : Nat]
Day == 0..MaxDay

ASSUME BudgetAssumption ==
  /\ DefaultTenant \in Tenant /\ NoTenant \notin Tenant
  /\ CostCfg \in Budget
  /\ DOMAIN TenantBudget \subseteq Tenant
  /\ \A t \in DOMAIN TenantBudget : TenantBudget[t] \in Budget
  /\ Persistent \in BOOLEAN

ASSUME RequestAssumption ==
  /\ IsFiniteSet(Request)
  /\ Tokens \subseteq Nat /\ Completion \subseteq Nat
  /\ MaxDay \in Nat /\ MaxSetbacks \in Nat /\ MaxSpend \in Nat

\* What a request can cost is bounded; MaxCost is the bound.
ASSUME CostAssumption ==
  /\ MaxCost \in Nat
  /\ \A table \in PriceTables, m \in Model, p \in Tokens, c \in Completion :
       Price(table, m, p, c) <= MaxCost

----------------------------------------------------------------------------
(***************************************************************************)
(* Budgets: a tenant's own figure where it is set, else the global one.    *)
(***************************************************************************)
Own(value, default) == IF value > 0 THEN value ELSE default

BudgetForTenant(t) ==
  IF t \in DOMAIN TenantBudget
    THEN [daily |-> Own(TenantBudget[t].daily, CostCfg.daily),
          perReq |-> Own(TenantBudget[t].perReq, CostCfg.perReq)]
    ELSE CostCfg

TenantOrDefault(id) == IF id = NoTenant THEN DefaultTenant ELSE id

----------------------------------------------------------------------------
VARIABLES
  ledger,      \* the cost_spend table: tenant, day |-> spent; survives a crash
  spendByDay,  \* the tracker's map; only a cache when there is a ledger
  today,       \* the day of the wall clock
  setbacks,    \* history: how often it was set back over midnight
  call,        \* caller |-> where it is in AllowTenant / RecordTenant
  repriced     \* history: callers whose estimate an effective refresh outdated

clock == <<today, setbacks>>
costVars == <<ledger, spendByDay, clock>>
vars == <<prices, ledger, spendByDay, today, setbacks, call, repriced>>

Phase == {"idle", "estimated", "admitted", "priced"}
Call == [phase : Phase, tenant : Tenant, model : Model \cup {""},
         prompt : Nat, max : Nat, completion : Nat,  \* token counts
         estimated : Nat, cost : Nat]                \* what they come to
Idle == [phase |-> "idle", tenant |-> DefaultTenant, model |-> "",
         prompt |-> 0, max |-> 0, completion |-> 0, estimated |-> 0, cost |-> 0]
NoSpend == [t \in Tenant |-> [d \in Day |-> 0]]

TypeOK ==
  /\ prices \in PriceTables
  /\ ledger \in [Tenant -> [Day -> Nat]]
  /\ spendByDay \in [Tenant -> [Day -> Nat]]
  /\ today \in Day
  /\ setbacks \in Nat
  /\ call \in [Request -> Call]
  /\ repriced \subseteq Request

Init ==
  /\ InitPrices
  /\ ledger = NoSpend
  /\ spendByDay = NoSpend
  /\ today = 0
  /\ setbacks = 0
  /\ call = [q \in Request |-> Idle]
  /\ repriced = {}

----------------------------------------------------------------------------
(***************************************************************************)
(* The spend that decides: the ledger's, read anew each time, if any.      *)
(***************************************************************************)
Spent(t, d) == IF Persistent THEN ledger[t][d] ELSE spendByDay[t][d]

\* spentForDay also copies what it read into the map.
CacheSpend(t, spent) ==
  spendByDay' = IF Persistent THEN [spendByDay EXCEPT ![t][today] = spent]
                ELSE spendByDay

\* Mutant: the estimate leaves out the completion.
EstimatePromptOnly(q, tenantID, model, promptTokens, maxTokens) ==
  /\ call[q].phase = "idle"
  /\ Spent(TenantOrDefault(tenantID), today) <= MaxSpend
  /\ call' = [call EXCEPT ![q] =
                [Idle EXCEPT !.phase = "estimated",
                             !.tenant = TenantOrDefault(tenantID),
                             !.model = model, !.prompt = promptTokens,
                             !.max = maxTokens,
                             !.estimated = Price(prices, model, promptTokens, 0)]]
  /\ repriced' = repriced \ {q}
  /\ UNCHANGED <<prices, costVars>>

(***************************************************************************)
(* AllowTenant up to the lock: the estimate, at the prices of the moment.  *)
(***************************************************************************)
Estimate(q, tenantID, model, promptTokens, maxTokens) ==
  /\ call[q].phase = "idle"
  /\ Spent(TenantOrDefault(tenantID), today) <= MaxSpend
  /\ call' = [call EXCEPT ![q] =
                [Idle EXCEPT !.phase = "estimated",
                             !.tenant = TenantOrDefault(tenantID),
                             !.model = model, !.prompt = promptTokens,
                             !.max = maxTokens,
                             !.estimated = Price(prices, model, promptTokens, maxTokens)]]
  /\ repriced' = repriced \ {q}
  /\ UNCHANGED <<prices, costVars>>

OverPerRequest(q) ==
  LET b == BudgetForTenant(call[q].tenant)
  IN  b.perReq > 0 /\ call[q].estimated > b.perReq

\* Mutant: the daily check forgets what has been spent.
OverDailyAlone(q) ==
  LET b == BudgetForTenant(call[q].tenant)
  IN  b.daily > 0 /\ call[q].estimated > b.daily

OverDaily(q) ==
  LET b == BudgetForTenant(call[q].tenant)
  IN  b.daily > 0 /\ Spent(call[q].tenant, today) + call[q].estimated > b.daily

Leave(q) == call' = [call EXCEPT ![q] = Idle]

\* The ledger cannot be read: AllowTenant returns the error.
AllowError(q) ==
  /\ call[q].phase = "estimated"
  /\ Persistent
  /\ Leave(q)
  /\ UNCHANGED <<prices, costVars, repriced>>

AllowReject(q) ==
  /\ call[q].phase = "estimated"
  /\ OverPerRequest(q) \/ OverDaily(q)
  /\ CacheSpend(call[q].tenant, Spent(call[q].tenant, today))
  /\ Leave(q)
  /\ UNCHANGED <<prices, ledger, clock, repriced>>

AllowAdmit(q) ==
  /\ call[q].phase = "estimated"
  /\ ~OverPerRequest(q) /\ ~OverDaily(q)
  /\ CacheSpend(call[q].tenant, Spent(call[q].tenant, today))
  /\ call' = [call EXCEPT ![q].phase = "admitted"]
  /\ UNCHANGED <<prices, ledger, clock, repriced>>

(***************************************************************************)
(* The caller got no answer to charge for: RecordTenant is not called.     *)
(***************************************************************************)
Abandon(q) ==
  /\ call[q].phase = "admitted"
  /\ Leave(q)
  /\ UNCHANGED <<prices, costVars, repriced>>

(***************************************************************************)
(* RecordTenant up to the lock: what was used, at the prices of the moment.*)
(***************************************************************************)
PriceUsage(q, completionTokens) ==
  /\ call[q].phase = "admitted"
  /\ call' = [call EXCEPT ![q].phase = "priced",
                          ![q].completion = completionTokens,
                          ![q].cost = Price(prices, call[q].model, call[q].prompt,
                                            completionTokens)]
  /\ UNCHANGED <<prices, costVars, repriced>>

\* Mutant: the map is charged before the ledger is asked.
RecordFailsCached(q) ==
  /\ call[q].phase = "priced"
  /\ Persistent
  /\ spendByDay' = [spendByDay EXCEPT ![call[q].tenant][today] = @ + call[q].cost]
  /\ Leave(q)
  /\ UNCHANGED <<prices, ledger, clock, repriced>>

\* AddSpend fails (an error of SQLite, a cancelled context): nothing is charged.
RecordFails(q) ==
  /\ call[q].phase = "priced"
  /\ Persistent
  /\ Leave(q)
  /\ UNCHANGED <<prices, costVars, repriced>>

AddSpend(spend, q) == [spend EXCEPT ![call[q].tenant][today] = @ + call[q].cost]

\* The upsert is in, but the spend cannot be read back: an error all the same.
RecordUnread(q) ==
  /\ call[q].phase = "priced"
  /\ Persistent
  /\ ledger' = AddSpend(ledger, q)
  /\ Leave(q)
  /\ UNCHANGED <<prices, spendByDay, clock, repriced>>

\* Mutant: the charge of one caller is written over what others have spent.
RecordOverwrites(q) ==
  /\ call[q].phase = "priced"
  /\ IF Persistent
       THEN /\ ledger' = [ledger EXCEPT ![call[q].tenant][today] = call[q].cost]
            /\ spendByDay' = [spendByDay EXCEPT ![call[q].tenant][today] = call[q].cost]
       ELSE spendByDay' = AddSpend(spendByDay, q) /\ UNCHANGED ledger
  /\ Leave(q)
  /\ UNCHANGED <<prices, clock, repriced>>

\* With a ledger the map takes the sum that was read back.
Record(q) ==
  /\ call[q].phase = "priced"
  /\ IF Persistent
       THEN /\ ledger' = AddSpend(ledger, q)
            /\ spendByDay' = [spendByDay EXCEPT ![call[q].tenant][today] =
                                ledger'[call[q].tenant][today]]
       ELSE spendByDay' = AddSpend(spendByDay, q) /\ UNCHANGED ledger
  /\ Leave(q)
  /\ UNCHANGED <<prices, clock, repriced>>

(***************************************************************************)
(* SnapshotTenant, for the admin endpoint: all it changes is the map.      *)
(***************************************************************************)
Snapshot(tenantID) ==
  LET t == TenantOrDefault(tenantID) IN
    /\ CacheSpend(t, Spent(t, today))
    /\ UNCHANGED <<prices, ledger, clock, call, repriced>>

(***************************************************************************)
(* The rest of the process and of the world: midnight (UTC), a clock that  *)
(* is set back over midnight, the refresh of the prices, a crash and       *)
(* restart, which forgets everything but the ledger and starts from the    *)
(* built-in prices again.                                                  *)
(***************************************************************************)
NextDay ==
  /\ today < MaxDay
  /\ today' = today + 1
  /\ UNCHANGED <<prices, ledger, spendByDay, setbacks, call, repriced>>

\* day() formats clock.Now(): nothing remembers that a later day had begun.
ClockBack ==
  /\ today > 0 /\ setbacks < MaxSetbacks
  /\ today' = today - 1
  /\ setbacks' = setbacks + 1
  /\ UNCHANGED <<prices, ledger, spendByDay, call, repriced>>

RefreshPrices(feed) ==
  /\ Refresh(feed)
  /\ repriced' = IF prices' = prices THEN repriced ELSE Request
  /\ UNCHANGED <<costVars, call>>

Crash ==
  /\ prices' = DefaultPrices
  /\ spendByDay' = NoSpend
  /\ call' = [q \in Request |-> Idle]
  /\ repriced' = {}
  /\ UNCHANGED <<ledger, clock>>

CallerStep(q) ==
  \/ \E id \in Tenant \cup {NoTenant}, m \in Model, p, c \in Tokens :
       Estimate(q, id, m, p, c)
  \/ AllowError(q) \/ AllowReject(q) \/ AllowAdmit(q)
  \/ Abandon(q)
  \/ \E c \in Completion : PriceUsage(q, c)
  \/ RecordFails(q) \/ RecordUnread(q) \/ Record(q)

Next ==
  \/ \E q \in Request : CallerStep(q)
  \/ \E id \in Tenant \cup {NoTenant} : Snapshot(id)
  \/ \E feed \in Feed : RefreshPrices(feed)
  \/ NextDay \/ ClockBack
  \/ Crash

Spec == Init /\ [][Next]_vars

----------------------------------------------------------------------------
(***************************************************************************)
(* Callers of a tenant that have been admitted and have yet to be charged. *)
(***************************************************************************)
Inflight(t) == {q \in Request : call[q].phase \in {"admitted", "priced"}
                                  /\ call[q].tenant = t}

(***************************************************************************)
(* One maximal request by every caller that can be in the handler at once. *)
(***************************************************************************)
Allowance == MaxCost * Cardinality(Request)
Ceiling(t) == BudgetForTenant(t).daily + Allowance * (1 + setbacks)

(***************************************************************************)
(* AllowTenant checks a budget that RecordTenant fills later, so the daily *)
(* budget can be overspent, but never by more than one request for every   *)
(* caller that can be in the handler at once, and as much again for every  *)
(* time the clock was set back and a day came twice: whatever the          *)
(* interleaving, the prices and the errors.                                *)
(***************************************************************************)
OverspendBounded ==
  \A t \in Tenant, d \in Day :
    BudgetForTenant(t).daily > 0 => Spent(t, d) <= Ceiling(t)

(***************************************************************************)
(* The inductive form: today's spend leaves room for a charge by every     *)
(* caller in flight, and a day to come, which only a clock that was ahead  *)
(* can have charged, for one by every caller there is.                     *)
(***************************************************************************)
RoomForInflight ==
  \A t \in Tenant : BudgetForTenant(t).daily > 0 =>
    /\ Spent(t, today) + MaxCost * Cardinality(Inflight(t)) <= Ceiling(t)
    /\ \A d \in Day : d > today => Spent(t, d) + Allowance <= Ceiling(t)

(***************************************************************************)
(* The map is only a copy of the ledger: after a failed or an interrupted  *)
(* RecordTenant, a restart or a day that comes again it can lag behind,    *)
(* but it never shows a charge the ledger does not have.                   *)
(***************************************************************************)
CacheNeverAhead ==
  Persistent => \A t \in Tenant, d \in Day : spendByDay[t][d] <= ledger[t][d]

(***************************************************************************)
(* A request that passed the per-request check is charged no more than the *)
(* per-request budget, if the provider kept to max_tokens and no refresh   *)
(* changed the prices after the estimate (the price is read before the     *)
(* lock, in AllowTenant and again in RecordTenant).                        *)
(***************************************************************************)
PerRequestHonoured ==
  \A q \in Request :
    (/\ call[q].phase = "priced"
     /\ q \notin repriced
     /\ call[q].completion <= call[q].max
     /\ BudgetForTenant(call[q].tenant).perReq > 0)
      => call[q].cost <= BudgetForTenant(call[q].tenant).perReq

(***************************************************************************)
(* What has been spent on a day is never forgotten while there is a        *)
(* ledger: not by a crash, not by a failing or an interrupted RecordTenant.*)
(***************************************************************************)
SpendNeverForgotten ==
  [][Persistent => \A t \in Tenant, d \in Day : Spent(t, d)' >= Spent(t, d)]_vars
=============================================================================
