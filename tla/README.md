# GuardRail in TLA+

GuardRail is an HTTP gateway between agents and LLM providers. It authenticates
a tenant, limits its request rate, screens and redacts prompts, enforces cost
budgets, routes to providers with failover, and keeps a cost ledger and an audit
log in SQLite. This directory holds TLA+ models of it, the TLC configurations
that check them and TLAPS proofs of their main properties.

## The system

| Component | State | Operations | Interacts with |
|---|---|---|---|
| Rate limiter `internal/ratelimit` | one token bucket per tenant, under a mutex | `New`, `Allow` | called first by the handler; reads the wall clock |
| Cost tracker `internal/cost/tracker.go` | map of spend by tenant and day, a cache of the ledger, under a mutex | `AllowTenant`, `RecordTenant`, `SnapshotTenant` | prices from the price table, spend from the ledger; called by the handler before and after the provider |
| Cost ledger `internal/cost/sqlite_ledger.go` | table `cost_spend` | `AddSpend` (additive upsert), `Spend`, migration | SQLite; the same file as the audit store |
| Price table `internal/cost/pricing.go` | model to price, swapped as a whole | `Price`, `Refresh`, `RunAutoRefresh` | a background goroutine refreshes it while requests price |
| Chat handler `internal/gateway/chat.go` | one goroutine per request | the request flow of `docs/architecture.md` | everything else |
| Security guard `internal/security` | none after `NewGuard` | `Inspect`, `Redact`, `actionFor` | called by the handler: inspects the decoded prompt, redacts the raw body |
| Router and adapters `internal/provider` | providers in order, key counter | `Candidates`, `ChatCompletions`, `NextKey` | HTTP to the providers |
| Metrics `internal/metrics` | four atomic counters | `Record*` | written by the handler |
| Audit store `internal/audit` | table `audit_events` | `Record`, `Recent`, migrations | SQLite |
| Migrator `internal/store` | table `schema_migrations` | `Run` | both stores, at startup |
| Startup, shutdown `internal/cmd`, `gateway/server.go` | lifecycle of the process | `Execute`, `Run` | opens and closes the stores |
| Authentication `internal/authn`, `gateway/auth.go` | keys to tenants, fixed after `NewManager` | `AuthenticateProxy`, `AuthenticateAdmin`, `withAuth` | gives the handler its tenant; limiter and tracker look that tenant up |
| Configuration `internal/config` | none after `Load` | `Load`, `applyEnv`, `Validate` | parameters of all of the above |

What is hard about it:

- *check and act apart.* A budget is checked before the provider is called and
  charged after it, with any number of other requests, midnight, a price refresh
  or a crash in between; prices are read outside the lock.
- *partial failure.* A charge can be committed and reported as failed; a client
  that disconnects cancels the context that charge and audit event are written
  with; one of several providers answers.
- *clocks.* The limiter and the tracker read a wall clock that can go backwards.
- *timeouts.* One timer covers a provider's answer to the last byte of its stream;
  another bounds shutdown, after which the databases are closed under whatever
  handlers are left. None covers the write to a client: `write_timeout` is 0 by
  default (config/defaults.go:10).
- *two who answer.* A provider's status is relayed unless it is 429 or 5xx, so a 400,
  402 or 403 can be the gateway's refusal, or an answer that is charged and audited.
- *two readings of one thing.* Validation, authentication, budgets and limits each
  read the tenant ids and keys of one configuration; the guard inspects the decoded
  prompt and redacts the raw body; handler and adapters have their own defaults.
- *restart.* Several processes can start on one database, each having read the
  applied migrations before it begins.

`PROJECT.json` lists these hazards at their lines, with the properties for them.

What makes each part correct: the limiter never admits more than burst plus rate
times time, and tells a rejected client the right time; the tracker bounds the
overspend that racing requests can cause, charges within what it checked and
never forgets a charge; the handler keeps to the tracker's protocol, forwards
only what it has screened, ends every request, and leaves ledger, audit log and
metrics in agreement; the migrator loses no row and lets no process serve from
tables that are not migrated. Authentication isolates tenants and lets somebody in;
the guard honours its modes and leaves nothing its rules find in a redacted body; a
provider call keeps the conversation, meters the answer and ends; a process that is
told to stop ends, and claims success only if no request was lost.

## The modules

| Module | What it is |
|---|---|
| `Limiter`, `MCLimiter`, `LimiterProofs` | the rate limiter |
| `Pricing` | prices and their refresh, extended by `Tracker` |
| `Tracker`, `MCTracker`, `TrackerProofs` | the cost tracker and its ledger |
| `Gateway`, `MCGateway`, `GatewayProofs` | the handler; composes `Tracker` (`T == INSTANCE Tracker`) with the guard's decision, the providers, the metrics and the audit log |
| `Guard`, `MCGuard`, `GuardProofs` | the security guard and what the handler does with its decision |
| `Auth`, `MCAuth`, `AuthProofs` | configuration, environment, key maps, tokens, the middleware |
| `Provider`, `MCProvider`, `ProviderProofs` | one upstream: key pool, adapters, streams, client timeout, metering |
| `Service` | what a process promises to whoever starts and stops it; abstract |
| `Lifecycle`, `MCLifecycle`, `LifecycleProofs` | the process from `main` to exit; implements `Service` (`S == INSTANCE Service WITH ...`) |
| `Migrator`, `MCMigrator`, `MigratorProofs` | startup of several processes on one SQLite file |

Definitions keep the names of the code. In every module the operators commented
"Mutant" are not part of the model: they are the changes that show that a
property can fail.

### Limiter

`Allow` runs under a mutex and is one step: `AllowUnlimited`, `AllowAdmit` or
`AllowReject`. `SetClock` moves the wall clock anywhere, because `RealClock` drops
the monotonic reading. Tokens are counted in 1/`Minute` of a request, which makes
`elapsed * requestsPerMinute` an exact integer; rounding of floats is left out.
`ValidateRateLimit`, what the configuration check accepts, is the assumption on
the limits. `admitted` and `highWater` are history variables.

### Tracker and Pricing

Both `AllowTenant` and `RecordTenant` price their tokens before they take the
mutex, so each is two steps: `Estimate`, then `AllowAdmit`, `AllowReject` or
`AllowError`; `PriceUsage`, then `Record`, `RecordFails` or `RecordUnread` (the
charge is in, the sum cannot be read back). `NextDay`, `ClockBack`, `RefreshPrices`
and `Crash` fall anywhere in between. With `Persistent` the ledger decides and the map is a
cache, as `cmd/run.go` sets it up; without, the map decides. Amounts are whole
numbers of a unit of which `Micro` make a micro-dollar. Prices and budgets are not
negative. `day()` formats the wall clock, so a day that was over can come again
(`ClockBack`), with its row in the ledger and its old entry in the map; `setbacks`
counts how often. The map alone (`Persistent` false) is what the proofs cover and
the runs do not.

### Guard

`NewGuard` normalises the modes and compiles the rules. A request is then inspected
and blocked, forwarded, or redacted rule by rule and decoded again. What a rule can
find is a *spot*, which shows in the decoded prompt, in the raw body, or in both:
text that JSON writes with an escape, or that spans two messages, shows in the
prompt only; other members of the JSON show in the body only. Regular expressions
are represented by the spots they find, and a replacement creates no new spot. A
spot outside a JSON string breaks the body. `Gateway` has the guard's decision only.

### Auth

`Load` completes a configuration from the environment and validates it, `Build`
makes the manager, and then requests come, one after the other, as the manager
never changes. A string is a word and whether there is white space around it,
because the code trims in some places and not in others. The map of keys is
written as a set of grants in which the last list that holds a key decides.
A signed token may still fail to verify. `BudgetsFor` is the other reader of the
tenants, `tenantBudgets` of the tracker.

### Provider

Callers share a pool of keys. A call builds the request for its provider's format
(`NewAnthropicRequest`, `NewGoogleRequest`), draws from the counter (`Draw`), indexes
the keys (`SendWithKey` or `Panic`), and reads an answer or copies a stream until it
ends, breaks off, or its time is up. While it is `Reading` it waits for the upstream,
and a failing upstream or `TimeoutFires` ends that; while it is `Writing` it waits for
the client, and only `ClientReads` or `ClientGone` ends that: `http.Client.Timeout`
closes the body of the upstream and does not touch the other connection. Meanwhile
`Tick` goes on, so a slow client uses up the time of the upstream. The counter is a word of `2 * Half` values with
Go's conversion, wrap and remainder. `Tick` is time; `left` is what remains of
`http.Client.Timeout`. Of a stream, `chunks` were read and `passed` have reached
the client: net/http holds up to `Buffer` of them back, more than that makes the copy
wait for the client (`write`), and so does the end of the stream (`flush`), whether it
comes by `Flush` or, after an error, when the handler has returned. A client that
leaves loses what is held back.

### Lifecycle and Service

The main goroutine goes through the steps of `Execute` and `Run`; any of them can
fail, and the deferred calls then close what is open. Beside it run the listener,
the handlers (reduced to their uses of the two databases), the signal and the
shutdown timer. A request comes by a connection that was opened while the listener
was up (`Connect`) and can be read long after (`Accept`): from a new connection during
the drain, from any while a process with a failed listener closes its databases.
`Shutdown` returns when there are no connections left, idle ones being closed
(`HangUp`). `lost` holds requests that found a database closed. `Service` has no
databases, listener or timer: a process starts, serves, drains or aborts, and ends
well or badly; work is kept, or lost in an abort. The mapping is `mode` and `work`.

### Gateway

A request is a goroutine that goes through `screen`, `estimate`, `allow`, `route`,
`write`, `usage`, `record`, `audit`. One action is the code up to its next use of shared
state. The actions of `Tracker` are used as they stand. A body is a record of
what the handler can tell apart: whether it decodes, its model, stream flag,
tokens and kinds of findings, and what redaction makes of it. The handler holds it
twice, as the bytes `forwardBody` and decoded as `chat`; each says whether it is the
original or the redaction, and `Forwarded` which of them an adapter sends: the OpenAI
ones the bytes, the others a body of their own made from `chat`. Each provider in
turn fails (an error, 429, 5xx) or answers with any other status of the constant
`UpstreamStatus`, of which only `\subseteq 100..999` is assumed; `answered` says that the
status is a provider's. Adapters that do not stream refuse streams. The answer is
written when the client has read it (`ResponseWritten`) or fails to be because the
client is gone (`WriteFails`). `Disconnect` cancels the request's context, after which calls on
databases and providers fail. The rate limiter shares no state with the rest and
answers either way. Crashes are left to `Tracker` and `Migrator`.

### Migrator

A process opens the audit store and then the ledger: for each it reads the
recorded versions (`ReadApplied`) and runs the others, each a transaction that
commits the change together with its version (`RunMigration`), is refused by the
primary key of `schema_migrations` because someone else was first
(`MigrationRefused`, the process exits), or is interrupted. That a transaction is
one atomic step is SQLite's promise. The file may be new, from before tenants or
from before the migrator. Processes that serve write both tables; `acked` is the
history of what they have written.

## What is checked

| Run | Shows | States |
|---|---|---|
| `limiter` | `SlidingWindow`, `ClockStepRecovers`, `TokensAccounted`, `RetryAfterExact` | 60,984 |
| `tracker` | `OverspendBounded`, `RoomForInflight`, `PerRequestHonoured`, `CacheNeverAhead`, `SpendNeverForgotten` | 1,023,848 |
| `gateway` | `AuditTrail`, `Reconciled`, `MetricsAgree`, with providers that refuse like the gateway does | 586,450 |
| `gateway_faults` | `ForwardedAsScreened`, `NeverOvercharged`, `KeepsTrackerProtocol`, `EveryRequestEnds` with faults, disconnects and clients that do not read | 77,068 |
| `gateway_charged` | violated: a disconnect after the answer loses the charge | |
| `migrator` | `RecordedMeansDone`, `ServingMigrated`, `NothingLost`, `StartupConverges` | 132,594 |
| `guard` | `ModesHonoured`, `RedactedBodyClean` | 92,915 |
| `guard_found` | violated: what is found is not always redacted | |
| `auth` | `TenantEntitled`, `AdminEntitled`, `NoLockout`, `BudgetOfItsSection` | 38,977 |
| `lifecycle` | `CleanExit`, `StoresReleased`, `Terminates`, `KeepsPromise` (the refinement) | 9,742 |
| `provider` | `ConversationKept`, `PricedLimitSent`, `Metered`, `EveryCallEnds` | 145,034 |
| `provider_keys` | `RotationEven`, `PanicOnlyAfterWrap` | 56,791 |

All type invariants are proved; those of `Gateway`, `Guard`, `Auth` and `Provider` are
also checked by their runs.

`KeepsTrackerProtocol` is a refinement: hidden behind its handler, the tracker
behaves as module `Tracker` allows. What is proved of `Tracker` therefore holds in
the gateway. `Tracker` in its turn is the abstract view of the handler: who may be
charged, when, and how often.

The violated runs are disagreements between code and documentation:

- *A served request may not be charged* (`gateway_charged`). The charge is made
  with the request's context after the answer was written (chat.go:113), and a
  client that is gone by then has cancelled it. `docs/architecture.md`: "Record tenant
  cost, metrics, and audit events." `NeverOvercharged` is what does hold.
- *A finding may be forwarded* (`guard_found`). Inspection reads the decoded prompt,
  redaction the raw JSON (chat.go:60); `README.md`: "PII and API-key redaction before
  upstream forwarding." `RedactedBodyClean` is what does hold.

The other properties are worded after the code where the documentation promises more:

- *The daily budget is not strict with one writer*, which `docs/ha-deployment.md`
  recommends "for strict global tenant budgets": requests in flight together are
  admitted against the same spend (tracker.go:125). `OverspendBounded` says by how
  much the budget can be exceeded.
- *Not every request is audited.* The gateway's own 400s return before `recordAudit`
  (chat.go:38, :44, :65); `docs/security-model.md`: "Each request records".
  `AuditTrail` says which requests leave one event and which none; a provider's 400
  that is relayed leaves one.
- *A key listed for two tenants belongs to one.* The map keeps the last entry
  (authn/manager.go:128) and nothing checks for duplicates; `docs/configuration.md`:
  "Tenant `proxy_api_keys` map directly to that tenant." `TenantEntitled` says the
  tenant is one of those that list the key.
- *A padded tenant id loses its budgets.* Keys are mapped to the trimmed id, budgets
  and limits to the id as written (tracker.go:225); `docs/configuration.md`: "Tenant
  budgets and rate limits override the global defaults when set."
  `BudgetOfItsSection` says they are its own or the global ones, never another's.
- *A long stream is cut.* The client timeout covers the body (router.go:45);
  `docs/configuration.md`: "`write_timeout: 0s` allows long LLM streams."
  `EveryCallEnds` depends on it. What `write_timeout: 0s` does allow is that a client
  which neither reads nor leaves keeps its handler, and the charge it is about to make,
  for ever; `EveryRequestEnds` and `EveryCallEnds` say that nothing else does.
- *A prompt mode of redact* is accepted (security.go:135) and has PII redacted although
  `pii_mode` is off; `docs/security-model.md`: "`prompt_injection_mode` decides whether
  findings only annotate the request or block it." `ModesHonoured` takes the stronger
  of the two modes.

### Bounds

Two requests, two processes, two or three tenants: the races at hand are between two,
and the proofs cover any number. The limiter's clock has four readings a second
apart, against a rate of 45 a minute, so waits of one to a few seconds, refills by
fractions of a request and steps back all occur; one tenant of its run has a burst and
no rate, one no limit. The tracker's budget is worth two to four requests; `MaxSpend`
only stops a tenant far beyond any budget from asking again, and in the gateway runs
it is never reached. `MaxDay` is one midnight (none in `gateway_faults`), and the clock
of `tracker` is set back once over it: without the factor of one per setback the bound
fails there. `MaxInterrupts` is two, one for each process or both for one. In the
gateway every kind of body is present: plain, streamed with PII, broken by redaction,
blocked, undecodable, for a model that nobody lists; three providers cover refusal of
streams, failover and fallback. Providers answer 200, 400, 402, 403, 429 and 500, the
gateway's own statuses among them (200, 403 and 429 in `gateway_faults`, where only the
bodies that differ for its properties are sent, one of them redactable and not
streamed, so that one adapter sends the bytes and one a body of its own). Its clock is not set back (`MaxSetbacks` is 0); that is
the tracker's own matter.

`guard` has every pair of modes, two of them oddly written, and all bodies of up to two
spots, which is what it takes for two kinds of findings, or two places, to meet. `auth`
takes the product of proxy keys, admin keys, OIDC settings and tenant lists, each with
blank, padded and plain entries, with three environments and 120 requests. In
`lifecycle` one of three requests can be kept, one cut off and one never accepted.
`provider` sends every sequence of three roles, and gives a call two ticks and three
chunks, one of which fits the buffer, so that a timeout can fall before, inside and
after each and the copy has to wait for the client more than once; `provider_keys` uses a
word of eight values and ten calls of two callers, so that the counter turns negative
and comes round.

Deadlock is checked where the system never stops (limiter, tracker, guard). A process
exits, a configuration is refused, and provider calls reach `MaxCalls`; in the
gateway the requests of the model all end, in the migrator all processes come to
serve and the rows reach their bound.

### Fairness

`Gateway`: weak fairness of the steps a handler takes by itself. Every call it waits
for in them ends: reading the request by `read_timeout`, providers by the client
timeout, SQLite by its busy timeout, and a write to a closed connection by an error.
The write to a client that is connected is not among them: `ResponseWritten` has no
fairness, because with `write_timeout` 0 nothing ends it but the client, and the
client owes neither reading nor leaving. `EveryRequestEnds` therefore has the second
outcome that the handler waits for its client for ever. Refreshes, midnight and
disconnects are not assumed to happen either.
`Migrator`: weak fairness of startup, which includes being started again after an
exit. That is the part of a supervisor and not of this repository: Kubernetes restarts
containers by default, while `deployments/docker-compose.yaml` states no restart
policy, so under it a process that loses the race stays down until someone starts it
again. Nothing else is assumed; `StartupConverges` rests on interruptions being finite.
`Lifecycle`: weak fairness of the main goroutine and of the shutdown timer. Handlers
may wait for ever, connections may stay open, and signals need not come.
`Provider` (`FairSpec`): time passes, and a caller that can go on by itself does. The
upstream and the client owe nothing; a call that stays in `Writing` for ever is the
second outcome of `EveryCallEnds`.

## What is proved

For every value of the constants that satisfies the named assumptions:

`LimiterProofs`: `TypeCorrect`, `RateLimited` (`SlidingWindow`),
`ClockStepHarmless` (`ClockStepRecovers`), `RetryAfterTheorem` (`RetryAfterExact`). `SlidingWindow` is not inductive, as it
says nothing of the tokens. `TokensAccounted` is what makes it so: all admissions
since the i-th, plus the tokens left, are covered by the burst and the refill
since the i-th. An admission moves a request from tokens to history, a refill
adds at most rate times time (`RefillAdds`), the cap only takes away; a new
admission leaves tokens that are not negative, hence the window. The one fact
about limits needed is that valid configurations have no negative figures
(`LimitFacts`). For `RetryAfterExact`, a property of steps, the invariant `Waiting`
carries what a rejection left behind to the tenant's next call: less than one request
in the bucket, and a wait computed from just those tokens. The truncated quotient
(`Truncated`) then bounds the refill from both sides.

`TrackerProofs`: `TypeCorrect`, `OverspendTheorem` (`OverspendBounded`),
`PerRequestTheorem`, `CacheTheorem` (`CacheNeverAhead`), `SpendTheorem` (an action
property), with and without a ledger. The strengthening is `RoomForInflight`: today's
spend, plus a maximal request for each caller in flight, is within the ceiling, which
is the budget plus one allowance, a maximal request for each caller there is, and one
more per setback of the clock. An admission adds one caller and starts from a spend
within the budget; a charge adds at most `MaxCost` and takes one caller away; midnight
finds a day with a whole allowance of room, which is the second conjunct; a setback
finds a day that is at its ceiling at worst and raises the ceiling by what the callers
in flight can add. `CallsOK` carries what each phase of a call has established to the
charge, for the per-request budget.

`MigratorProofs`: `TypeCorrect`, `VersionsTellTheTruth` (`RecordedMeansDone`),
`ServesMigrated`, `MigrationPreserves` (`NothingLost`). The strengthening says that
a process believes only versions that are recorded (its knowledge is stale in one
direction only), that a process at the ledger has seen the audit store migrated,
and that rows without a tenant are in legacy tables only, so that adding them to
the default tenant's counts each once.

`LifecycleProofs`: `TypeCorrect`, `ExitIsClean` (`CleanExit`), `NothingLeftOpen`
(`StoresReleased`) and `ImplementsService`, that initial states and steps of the
process are those of `Service`; its fairness is left to TLC. The invariant says, for
each step of `Execute`, which databases are open and in what state the listener is;
that a nil result leaves no handler behind and no connection that could bring one; and
that only a process which returns an error has lost work.

`GatewayProofs`, for any number of requests and tenants, any bodies, providers and
statuses of theirs, prices and feeds:

- `TrackerProtocol` (`KeepsTrackerProtocol`): the initial states and every step of the
  handler are those of `Tracker`. `TrackerProofs` is used by INSTANCE (`TP`); the lemmas
  `Same...` say that the tracker in the gateway is the one proved about. `BudgetsKept` is
  what follows: `OverspendBounded` and `PerRequestHonoured` hold inside the gateway.
- `TypeCorrect`; `Screening` (`ForwardedAsScreened`), with any faults and disconnects.
  The invariant `HInv` says, for each place in the handler, in which phase its call of
  the tracker is, what it has sent, what it may have replied, whether that is a
  provider's answer, that neither bytes nor decoded request are the original of what is
  to be redacted, and that it got there only past the guard.
- `AuditTheorem` (`AuditTrail`) without faults and disconnects, and with any of them
  `HonestTheorem`: events may be missing, but none is repeated, early or wrong.
- `ReconciledTheorem` (`Reconciled`), with a ledger and without faults: what
  `recordUsage` adds to the ledger is owed to the log until `recordAudit` writes it.
- `ChargesTheorem` (`NeverOvercharged`) with any faults, as long as there is no feed:
  then the handler's fallback price is the price charged (`OnePrice`).
- `CountersTheorem`, with any faults: each counter is the sum of what the requests have
  added to it; `MetricsTheorem` (`MetricsAgree`) without faults, from it and from `LogOK`:
  whatever is added up over the log can be added up over the requests written.

The hypotheses of these theorems (`Clean`, `Persistent`, `Feed = {}`) are those of the
runs that check the property; the code does not promise more, as `gateway_charged` shows.

`GuardProofs`: `TypeCorrect`, `ModesTheorem` (`ModesHonoured`), `RedactionTheorem`
(`RedactedBodyClean`) for any list of rules, and `NothingLeftOut`: the rules in that list
are every built-in rule and every custom pattern that compiles. The invariant says
that the action is at least as strong as any the findings ask for, that redaction is
left only at the end of the loop, and that what the loop has been through shows no
more.

`AuthProofs`: `TenantsIsolated` (`TenantEntitled`), `AdminsOnly` (`AdminEntitled`),
`NobodyLockedOut` (`NoLockout`), `OwnBudget` (`BudgetOfItsSection`) and `TypeCorrect`, for
all configurations, environments, tokens and requests. The invariant is that the
manager in use is `NewManager` of a configuration that passed `Validate`, and that what
was served is what it allows. `KeyIsListed` and `ListedKeyIsFound` relate the map of
keys to the lists it is made of; the second needs that of the lists that hold a key
there is a last one.

`ProviderProofs`: `TypeCorrect` and, for all pools, word widths and interleavings,
`KeysInRange` (`PanicOnlyAfterWrap`): up to the wrap a caller's number is one of
`1..Half`, for which Go's conversion and remainder give an index of the pool;
`RotationTheorem` (`RotationEven`): each key has been drawn as often as the round trips
of the counter say (`Turned`), and used as often less the callers that are between the
two. For conversations of any length, `ConversationTheorem` (`ConversationKept`), with
`LimitTheorem` (`PricedLimitSent`) and `MeteredTheorem` (`Metered`): the invariant `CInv`
carries what the adapter built to the answer. `Passing` is what the steps of a copy, of
a client and of a failure have in common.

`TokensTheorem` and `RoomTheorem` state the two strengthenings of limiter and tracker
by themselves.

### Loops, sums and induction

The library's induction theorems take an operator, which the provers cannot
instantiate. Where a proof needs induction it goes by sets: the naturals, or the
subsets of a finite set, for which a fact fails have a least element
(`LeastNatural`, `FiniteInduction`), and that one leads to a contradiction. On this rest

- *sums*: `Functions!SumFunction` is a fold over a set in no fixed order. `SumExists`
  shows that the function it defines exists, `SumRemove` that the order does not matter;
  the other lemmas say how a sum changes with one term.
- *loops* over a list (`PIIRules`, `OfRole`, `AppendEnvKeys`) are recursive functions in a
  LET. `LoopRuns` shows that some function runs the loop, so that the one the model
  chooses does; what the loop keeps is then shown along its steps.

### Only model-checked

Liveness (`EveryRequestEnds`, `StartupConverges`, `Terminates`, `EveryCallEnds`) and the
fairness of `KeepsPromise`, which are beyond the prover; `ImplementsService` is the rest
of that refinement. The two violated runs are counterexamples. Every other property
of the runs is a theorem.

## What is not modelled, and the plan

Left out for good: HTTP, JSON, YAML, SQL and regular expressions as such, log
and metric formats, token verification (a library), hashing of keys, rounding of
floats, prices below zero. Of the configuration: the defaults, `applyProviderKey`
(the key of an environment variable for a provider that has none) and the checks
of single figures, except where a model's assumptions are those checks. `Recent` of
the audit store and the health endpoint only read. `reliability.max_retries` is read
by nothing in the code.

Planned, all of them about what the proofs leave to hypotheses:

1. With a feed, by how much charges and reported costs can differ: the fallback of
   `recordUsage` uses the built-in prices, so the difference is that of the two tables.
2. With faults, that the ledger is never behind the audit log by more than the charges
   that failed, the counterpart of `Reconciled`.
3. That the decision of the guard in `Gateway` is that of module `Guard`, as it is done
   for the tracker.
