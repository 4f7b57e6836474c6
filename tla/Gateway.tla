------------------------------ MODULE Gateway ------------------------------
(***************************************************************************)
(* The chat completion handler, internal/gateway/chat.go, with what it     *)
(* drives: the security guard's decision, the cost tracker, the providers  *)
(* in failover order, the metrics registry and the audit log.              *)
(*                                                                         *)
(* Each request is one goroutine.  An action is the code up to and with    *)
(* its next call on something requests share: the tracker (module Tracker, *)
(* whose actions are used as they are), a provider, the audit store.  The  *)
(* steps of different requests interleave freely.  The rate limiter        *)
(* (module Limiter) shares no state with the rest, so here its answer is   *)
(* simply either one.                                                      *)
(*                                                                         *)
(* The client of a request can disconnect at any time; that cancels        *)
(* r.Context(), and every database or provider call made with it fails.  A *)
(* client that stays connected need not read: write_timeout is 0 unless    *)
(* configured, so the write of a long answer then lasts as long as the     *)
(* client pleases.  (A write_timeout that expires cancels r.Context() as a *)
(* disconnect does.)                                                       *)
(***************************************************************************)
EXTENDS Integers, Sequences, FiniteSets, Functions

CONSTANTS
  Model, DefaultPrices, Feed, Micro,                    \* as in Pricing
  Tenant, DefaultTenant, NoTenant, CostCfg, TenantBudget,
  Persistent, Request, Tokens, Completion, MaxCost,     \* as in Tracker
  MaxDay, MaxSetbacks, MaxSpend,
  Body,              \* the request bodies in play
  DefaultMaxTokens,  \* max_tokens assumed when a request names none: 1024
  PromptMode,        \* prompt_injection_mode, normalized
  PIIMode,           \* pii_mode, normalized
  Providers,         \* the configured providers, in order
  UpstreamStatus,    \* the statuses providers answer with
  Faults,            \* SQLite can fail
  Disconnects        \* clients can disconnect

VARIABLES
  prices, ledger, spendByDay, today, setbacks, call, repriced,  \* as in Tracker
  handler,   \* request |-> its goroutine: where it is, and its locals
  metrics,   \* the counters of the metrics registry
  audit      \* the audit_events table, in order of insertion

T == INSTANCE Tracker

ASSUME TrackerAssumption ==
  T!PriceAssumption /\ T!BudgetAssumption /\ T!RequestAssumption /\ T!CostAssumption

trackerVars == <<prices, ledger, spendByDay, today, setbacks, call, repriced>>
vars == <<trackerVars, handler, metrics, audit>>

----------------------------------------------------------------------------
(***************************************************************************)
(* A body: whether it decodes; what DecodeChatCompletion yields; the kinds *)
(* of findings its prompt has; and, should it be redacted, whether the     *)
(* result decodes and how many prompt tokens are left.                     *)
(***************************************************************************)
FindingKind == {"prompt_injection", "pii"}
BodyType == [decodes : BOOLEAN, model : Model, stream : BOOLEAN,
             prompt : Tokens, max : Int, findings : SUBSET FindingKind,
             redactedDecodes : BOOLEAN, redactedPrompt : Tokens]
NoBody == CHOOSE b \in Body : TRUE

Mode == {"off", "warn", "redact", "block"}
ProviderType == {"openai", "openai-compatible", "anthropic", "google"}

ASSUME GatewayAssumption ==
  /\ Body # {} /\ Body \subseteq BodyType
  /\ DefaultMaxTokens \in Tokens
  /\ \A b \in Body : b.max > 0 => b.max \in Tokens
  /\ 0 \in Completion
  /\ PromptMode \in Mode /\ PIIMode \in Mode
  /\ \A i \in 1..Len(Providers) :
       Providers[i] \in [type : ProviderType, models : SUBSET Model]
  /\ UpstreamStatus \subseteq 100..999
  /\ Faults \in BOOLEAN /\ Disconnects \in BOOLEAN

(***************************************************************************)
(* The guard: the strongest of the actions its findings' modes ask for.    *)
(***************************************************************************)
Action == {"allow", "warn", "redact", "block"}
Rank(action) == CASE action = "allow" -> 0 [] action = "warn" -> 1
                  [] action = "redact" -> 2 [] action = "block" -> 3

ActionFromMode(mode) == IF mode = "off" THEN "allow" ELSE mode

ActionFor(findings) ==
  LET asked == {"allow"}
                 \cup (IF "prompt_injection" \in findings
                         THEN {ActionFromMode(PromptMode)} ELSE {})
                 \cup (IF "pii" \in findings THEN {ActionFromMode(PIIMode)} ELSE {})
  IN  CHOOSE action \in asked : \A other \in asked : Rank(other) <= Rank(action)

(***************************************************************************)
(* Providers that list the model, else those that list none, in order.     *)
(***************************************************************************)
Candidates(model) ==
  LET matches == SelectSeq(Providers, LAMBDA p : model \in p.models)
      fallback == SelectSeq(Providers, LAMBDA p : p.models = {})
  IN  IF matches # <<>> THEN matches ELSE fallback

MaxTokens(b) == IF b.max <= 0 THEN DefaultMaxTokens ELSE b.max

----------------------------------------------------------------------------
\* The gateway's own statuses (0: none yet), and whatever a provider answers.
Status == {0, 400, 402, 403, 429, 500, 502} \cup UpstreamStatus
Retryable(status) == status = 429 \/ status >= 500

PC == {"idle", "screen", "estimate", "allow", "route", "write", "usage", "record",
       "audit", "done"}
Text == {"raw", "redacted"}         \* a body, or its redaction
Handler == [pc : PC, tenant : Tenant, body : Body,
            forwardBody : Text,     \* the bytes to forward
            chat : Text,            \* what the decoded request was decoded from
            hop : Nat,              \* providers tried
            sent : SUBSET Text,     \* what providers were sent
            answered : BOOLEAN,     \* a provider's answer is relayed
            streaming : BOOLEAN,    \* that answer is a stream
            status : Status,        \* of the response
            cost : Nat,             \* of the usage that goes to the audit
            gone : BOOLEAN]         \* the client has disconnected
NewHandler == [pc |-> "idle", tenant |-> DefaultTenant, body |-> NoBody,
               forwardBody |-> "raw", chat |-> "raw", hop |-> 0, sent |-> {},
               answered |-> FALSE, streaming |-> FALSE, status |-> 0, cost |-> 0,
               gone |-> FALSE]
\* answered: the event names a provider.
Event == [request : Request, tenant : Tenant, answered : BOOLEAN,
          status : Status, cost : Nat]
Registry == [requests : Nat, blocked : Nat, failovers : Nat, costMicro : Nat]

TypeOK ==
  /\ T!TypeOK
  /\ handler \in [Request -> Handler]
  /\ metrics \in Registry
  /\ audit \in Seq(Event)

Init ==
  /\ T!Init
  /\ handler = [q \in Request |-> NewHandler]
  /\ metrics = [requests |-> 0, blocked |-> 0, failovers |-> 0, costMicro |-> 0]
  /\ audit = <<>>

----------------------------------------------------------------------------
At(q, pc) == handler[q].pc = pc
Goto(q, pc) == handler' = [handler EXCEPT ![q].pc = pc]

\* The response goes out; what is left is to write the audit event, or nothing.
Reply(q, status, pc) ==
  handler' = [handler EXCEPT ![q].status = status, ![q].pc = pc]

RecordBlocked == metrics' = [metrics EXCEPT !.blocked = @ + 1]

(***************************************************************************)
(* The request arrives and asks the rate limiter, before its body is read. *)
(***************************************************************************)
\* Mutant: a request without a tenant does not get the default one.
ArrivedRaw(tenantID, b) == [NewHandler EXCEPT !.tenant = tenantID, !.body = b]

Arrived(tenantID, b) ==
  [NewHandler EXCEPT !.tenant = T!TenantOrDefault(tenantID), !.body = b]

Arrive(q, tenantID, b) ==
  /\ At(q, "idle")
  /\ handler' = [handler EXCEPT ![q] = [Arrived(tenantID, b) EXCEPT !.pc = "screen"]]
  /\ metrics' = [metrics EXCEPT !.requests = @ + 1]
  /\ UNCHANGED <<trackerVars, audit>>

ArriveLimited(q, tenantID, b) ==
  /\ At(q, "idle")
  /\ handler' = [handler EXCEPT ![q] =
                   [Arrived(tenantID, b) EXCEPT !.pc = "audit", !.status = 429]]
  /\ metrics' = [metrics EXCEPT !.requests = @ + 1, !.blocked = @ + 1]
  /\ UNCHANGED <<trackerVars, audit>>

(***************************************************************************)
(* Reading, decoding, inspecting and redacting the body.                   *)
(***************************************************************************)
BadBody(q) ==
  /\ At(q, "screen")
  /\ ~handler[q].body.decodes \/ handler[q].gone
  /\ RecordBlocked
  /\ Reply(q, 400, "done")
  /\ UNCHANGED <<trackerVars, audit>>

BlockedByGuard(q) ==
  /\ At(q, "screen")
  /\ handler[q].body.decodes
  /\ ActionFor(handler[q].body.findings) = "block"
  /\ RecordBlocked
  /\ Reply(q, 403, "audit")
  /\ UNCHANGED <<trackerVars, audit>>

BrokenByRedaction(q) ==
  /\ At(q, "screen")
  /\ handler[q].body.decodes
  /\ ActionFor(handler[q].body.findings) = "redact"
  /\ ~handler[q].body.redactedDecodes
  /\ RecordBlocked
  /\ Reply(q, 400, "done")
  /\ UNCHANGED <<trackerVars, audit>>

Redacted(q) ==
  IF ActionFor(handler[q].body.findings) = "redact" THEN "redacted" ELSE "raw"

\* Mutant: the redacted body is not decoded again.
ScreenedStale(q) ==
  /\ At(q, "screen")
  /\ handler[q].body.decodes
  /\ ActionFor(handler[q].body.findings) # "block"
  /\ handler' = [handler EXCEPT ![q].forwardBody = Redacted(q), ![q].pc = "estimate"]
  /\ UNCHANGED <<trackerVars, metrics, audit>>

Screened(q) ==
  /\ At(q, "screen")
  /\ handler[q].body.decodes
  /\ ActionFor(handler[q].body.findings) # "block"
  /\ ActionFor(handler[q].body.findings) = "redact" => handler[q].body.redactedDecodes
  /\ handler' = [handler EXCEPT ![q].forwardBody = Redacted(q), ![q].chat = Redacted(q),
                                ![q].pc = "estimate"]
  /\ UNCHANGED <<trackerVars, metrics, audit>>

(***************************************************************************)
(* The budget: the two steps of AllowTenant.                               *)
(***************************************************************************)
PromptTokens(q) ==
  IF handler[q].chat = "redacted" THEN handler[q].body.redactedPrompt
                                  ELSE handler[q].body.prompt

EstimateBudget(q) ==
  LET b == handler[q].body IN
    /\ At(q, "estimate")
    /\ T!Estimate(q, handler[q].tenant, b.model, PromptTokens(q), MaxTokens(b))
    /\ Goto(q, "allow")
    /\ UNCHANGED <<metrics, audit>>

\* Mutant: a budget that cannot be read lets the request through.
BudgetErrorAdmits(q) ==
  /\ At(q, "allow") /\ call[q].phase = "estimated"
  /\ Faults \/ handler[q].gone
  /\ call' = [call EXCEPT ![q].phase = "admitted"]
  /\ Goto(q, "route")
  /\ UNCHANGED <<prices, ledger, spendByDay, today, setbacks, repriced, metrics, audit>>

BudgetError(q) ==
  /\ At(q, "allow")
  /\ Faults \/ handler[q].gone
  /\ T!AllowError(q)
  /\ RecordBlocked
  /\ Reply(q, 500, "audit")
  /\ UNCHANGED audit

\* Mutant: the refusal is not audited.
OverBudgetUnaudited(q) ==
  At(q, "allow") /\ ~handler[q].gone /\ T!AllowReject(q) /\ RecordBlocked
    /\ Reply(q, 402, "done") /\ UNCHANGED audit

OverBudget(q) ==
  /\ At(q, "allow")
  /\ ~handler[q].gone
  /\ T!AllowReject(q)
  /\ RecordBlocked
  /\ Reply(q, 402, "audit")
  /\ UNCHANGED audit

WithinBudget(q) ==
  /\ At(q, "allow")
  /\ ~handler[q].gone
  /\ T!AllowAdmit(q)
  /\ Goto(q, "route")
  /\ UNCHANGED <<metrics, audit>>

(***************************************************************************)
(* callProviders: one step per candidate.  A provider fails by an error (a *)
(* cancelled context, the client timeout, a body that does not decode, a   *)
(* stream asked of one that has none, which is not even called) or by its  *)
(* status, 429 or 5xx: the next candidate is tried.  Any other status is   *)
(* the answer.                                                             *)
(***************************************************************************)
CandidatesOf(q) == Candidates(handler[q].body.model)

CanStream(p) == p.type \in {"openai", "openai-compatible"}

\* Mutant: the first attempt counts as a failover too.
CountEveryAttempt(q) == metrics' = [metrics EXCEPT !.failovers = @ + 1]

CountFailover(q) ==
  metrics' = [metrics EXCEPT !.failovers = IF handler[q].hop > 0 THEN @ + 1 ELSE @]

\* The OpenAI adapters send the bytes, the others a body made from the decoded request.
Forwarded(q, p) ==
  IF p.type \in {"openai", "openai-compatible"} THEN {handler[q].forwardBody}
  ELSE IF handler[q].body.stream THEN {}
  ELSE {handler[q].chat}

SentTo(q, p) == handler[q].sent \cup Forwarded(q, p)

\* Mutant: the failed provider is tried again.
ProviderRetried(q) ==
  /\ At(q, "route")
  /\ handler[q].hop < Len(CandidatesOf(q))
  /\ handler' = [handler EXCEPT ![q].sent = SentTo(q, CandidatesOf(q)[handler[q].hop + 1])]
  /\ CountFailover(q)
  /\ UNCHANGED <<trackerVars, audit>>

ProviderFails(q) ==
  /\ At(q, "route")
  /\ handler[q].hop < Len(CandidatesOf(q))
  /\ handler' = [handler EXCEPT
                   ![q].sent = SentTo(q, CandidatesOf(q)[handler[q].hop + 1]),
                   ![q].hop = @ + 1]
  /\ CountFailover(q)
  /\ UNCHANGED <<trackerVars, audit>>

ProviderAnswers(q, status) ==
  LET p == CandidatesOf(q)[handler[q].hop + 1] IN
    /\ At(q, "route")
    /\ handler[q].hop < Len(CandidatesOf(q))
    /\ ~handler[q].gone
    /\ handler[q].body.stream => CanStream(p)
    /\ ~Retryable(status)
    /\ handler' = [handler EXCEPT ![q].sent = SentTo(q, p), ![q].hop = @ + 1,
                                  ![q].answered = TRUE,
                                  ![q].streaming = handler[q].body.stream,
                                  ![q].status = status, ![q].pc = "write"]
    /\ CountFailover(q)
    /\ UNCHANGED <<trackerVars, audit>>

\* No candidate, or none that answered: nothing is charged.
AllProvidersFailed(q) ==
  /\ At(q, "route")
  /\ handler[q].hop = Len(CandidatesOf(q))
  /\ T!Abandon(q)
  /\ Reply(q, 502, "audit")
  /\ UNCHANGED <<metrics, audit>>

(***************************************************************************)
(* Writing the answer, or copying the stream: it is written when the       *)
(* client has read it, and a client that is gone makes the write fail,     *)
(* which is logged and no more.  The gateway's own responses never wait:   *)
(* they fit the buffer that net/http sends when the handler has returned.  *)
(***************************************************************************)
ResponseWritten(q) ==
  /\ At(q, "write")
  /\ ~handler[q].gone
  /\ Goto(q, "usage")
  /\ UNCHANGED <<trackerVars, metrics, audit>>

WriteFails(q) ==
  /\ At(q, "write")
  /\ handler[q].gone
  /\ Goto(q, "usage")
  /\ UNCHANGED <<trackerVars, metrics, audit>>

(***************************************************************************)
(* Written or not, the usage is recorded: the two steps of                 *)
(* RecordTenant.  A stream is charged without completion tokens, and a     *)
(* charge that fails is reported, to metrics and audit only, at the        *)
(* built-in prices.                                                        *)
(***************************************************************************)
PriceResponse(q, completionTokens) ==
  /\ At(q, "usage")
  /\ handler[q].streaming => completionTokens = 0
  /\ T!PriceUsage(q, completionTokens)
  /\ Goto(q, "record")
  /\ UNCHANGED <<metrics, audit>>

\* The counter takes whole micro-dollars: the fraction is cut off.
RecordCost(cost) == metrics' = [metrics EXCEPT !.costMicro = @ + (cost \div Micro)]

Charged(q, cost) ==
  /\ handler' = [handler EXCEPT ![q].cost = cost, ![q].pc = "audit"]
  /\ RecordCost(cost)
  /\ UNCHANGED audit

FallbackCost(q) == T!StaticPrice(call[q].model, call[q].prompt, call[q].completion)

\* Mutant: the audit gets the built-in price of what the ledger was charged.
RecordUsageStatic(q) ==
  At(q, "record") /\ ~handler[q].gone /\ T!Record(q) /\ Charged(q, FallbackCost(q))

RecordUsage(q) ==
  At(q, "record") /\ ~handler[q].gone /\ T!Record(q) /\ Charged(q, call[q].cost)

RecordUsageFails(q) ==
  /\ At(q, "record")
  /\ Faults \/ handler[q].gone
  /\ T!RecordFails(q)
  /\ Charged(q, FallbackCost(q))

\* Mutant: an error after the charge makes the handler charge again.
RecordUsageTwice(q) ==
  /\ At(q, "record") /\ call[q].phase = "priced" /\ Persistent
  /\ Faults \/ handler[q].gone
  /\ ledger' = T!AddSpend(T!AddSpend(ledger, q), q)
  /\ T!Leave(q)
  /\ UNCHANGED <<prices, spendByDay, today, setbacks, repriced>>
  /\ Charged(q, FallbackCost(q))

\* Here "gone" may be a disconnect between the upsert and the read.
RecordUsageUnread(q) ==
  /\ At(q, "record")
  /\ Faults \/ handler[q].gone
  /\ T!RecordUnread(q)
  /\ Charged(q, FallbackCost(q))

(***************************************************************************)
(* recordAudit: an insert that fails is logged and forgotten.              *)
(***************************************************************************)
AuditEvent(q) == [request |-> q, tenant |-> handler[q].tenant,
                  answered |-> handler[q].answered,
                  status |-> handler[q].status, cost |-> handler[q].cost]

RecordAudit(q) ==
  /\ At(q, "audit")
  /\ ~handler[q].gone
  /\ audit' = Append(audit, AuditEvent(q))
  /\ Goto(q, "done")
  /\ UNCHANGED <<trackerVars, metrics>>

RecordAuditFails(q) ==
  /\ At(q, "audit")
  /\ Faults \/ handler[q].gone
  /\ Goto(q, "done")
  /\ UNCHANGED <<trackerVars, metrics, audit>>

(***************************************************************************)
(* Around the requests: a client disconnects; an administrator looks at    *)
(* the costs; the price table is refreshed; midnight passes.               *)
(***************************************************************************)
Disconnect(q) ==
  /\ Disconnects
  /\ ~At(q, "idle") /\ ~At(q, "done") /\ ~handler[q].gone
  /\ handler' = [handler EXCEPT ![q].gone = TRUE]
  /\ UNCHANGED <<trackerVars, metrics, audit>>

Around ==
  /\ \/ \E t \in Tenant : T!Snapshot(t)
     \/ \E feed \in Feed : T!RefreshPrices(feed)
     \/ T!NextDay
  /\ UNCHANGED <<handler, metrics, audit>>

Handle(q) ==
  \/ BadBody(q) \/ BlockedByGuard(q) \/ BrokenByRedaction(q) \/ Screened(q)
  \/ EstimateBudget(q) \/ BudgetError(q) \/ OverBudget(q) \/ WithinBudget(q)
  \/ ProviderFails(q) \/ (\E s \in UpstreamStatus : ProviderAnswers(q, s))
  \/ AllProvidersFailed(q) \/ WriteFails(q)
  \/ (\E c \in Completion : PriceResponse(q, c))
  \/ RecordUsage(q) \/ RecordUsageFails(q) \/ RecordUsageUnread(q)
  \/ RecordAudit(q) \/ RecordAuditFails(q)

Next ==
  \/ \E q \in Request :
       \/ \E id \in Tenant \cup {NoTenant}, b \in Body :
            Arrive(q, id, b) \/ ArriveLimited(q, id, b)
       \/ Handle(q)
       \/ ResponseWritten(q)
       \/ Disconnect(q)
  \/ Around

(***************************************************************************)
(* A goroutine that can take a step takes it: every call it waits for ends *)
(* by itself (providers have the client timeout, SQLite an answer, and a   *)
(* write to a closed connection an error).  The exception is the write to  *)
(* a client that is connected: ResponseWritten needs the client, which     *)
(* owes the gateway neither reading nor disconnecting.                     *)
(***************************************************************************)
Spec == Init /\ [][Next]_vars /\ \A q \in Request : WF_vars(Handle(q))

----------------------------------------------------------------------------
\* Where the events of a request are in the audit log.
EventsOf(q) == {i \in 1..Len(audit) : audit[i].request = q}

(***************************************************************************)
(* The handler keeps to the tracker's protocol: whatever happens to a      *)
(* request, RecordTenant is called at most once, and only after an         *)
(* AllowTenant that admitted it.                                           *)
(***************************************************************************)
KeepsTrackerProtocol == T!Init /\ [][T!Next]_trackerVars

(***************************************************************************)
(* Without faults or disconnects, a finished request that got past         *)
(* decoding has exactly one audit event, and that event tells the status   *)
(* the client was sent and the tenant; the gateway's own 400 leaves none,  *)
(* a provider's 400 that is relayed one like any other answer.             *)
(***************************************************************************)
Discarded(q) == ~handler[q].answered /\ handler[q].status = 400

AuditTrail ==
  \A q \in Request :
    At(q, "done") =>
      IF Discarded(q) THEN EventsOf(q) = {}
      ELSE \E i \in 1..Len(audit) : EventsOf(q) = {i} /\ audit[i] = AuditEvent(q)

(***************************************************************************)
(* Without faults or disconnects the ledger and the audit log agree at     *)
(* every moment: what a tenant has been charged is the sum of its audit    *)
(* events and of the events about to be written, whatever the prices did   *)
(* between the estimate, the charge and the event.                         *)
(***************************************************************************)
LedgerTotal(t) == SumFunction(ledger[t])
AuditTotal(t) ==
  SumFunction([i \in 1..Len(audit) |-> IF audit[i].tenant = t THEN audit[i].cost ELSE 0])
PendingTotal(t) ==
  SumFunction([q \in Request |-> IF At(q, "audit") /\ handler[q].tenant = t
                                   THEN handler[q].cost ELSE 0])

Reconciled == \A t \in Tenant : LedgerTotal(t) = AuditTotal(t) + PendingTotal(t)

(***************************************************************************)
(* The metrics tell the same story as requests and audit log.  At every    *)
(* moment the failover counter is the attempts beyond the first of each    *)
(* request, and a request is given up, 502, only after every candidate was *)
(* tried.  Once every request is done, the blocked ones are the gateway's  *)
(* own 400s and the audited events without a provider, 502 excepted (what  *)
(* a provider refused is not blocked), and the cost counter is short of    *)
(* the audited costs by less than a micro-dollar per event (RecordCost     *)
(* cuts off the fraction).                                                 *)
(***************************************************************************)
Quiet == \A q \in Request : At(q, "idle") \/ At(q, "done")
Audited(p(_)) == Cardinality({i \in 1..Len(audit) : p(audit[i])})
Refusal(e) == ~e.answered /\ e.status # 502
AuditedCost == SumFunction([i \in 1..Len(audit) |-> audit[i].cost])
Failovers(q) == IF handler[q].hop > 0 THEN handler[q].hop - 1 ELSE 0

MetricsAgree ==
  /\ metrics.failovers = SumFunction([q \in Request |-> Failovers(q)])
  /\ \A q \in Request :
       handler[q].status = 502 => handler[q].hop = Len(CandidatesOf(q))
  /\ Quiet =>
       /\ metrics.requests - Len(audit)
            = Cardinality({q \in Request : Discarded(q)})
       /\ metrics.blocked = (metrics.requests - Len(audit)) + Audited(Refusal)
       /\ metrics.costMicro * Micro <= AuditedCost
       /\ AuditedCost - metrics.costMicro * Micro
            <= (Micro - 1) * Audited(LAMBDA e : e.cost > 0)

(***************************************************************************)
(* No provider sees a request that the gateway itself answers with a       *)
(* refusal or that the guard blocks, and no provider, whether its adapter  *)
(* sends the bytes or builds a body from the decoded request, sees the     *)
(* original of a request that is to be redacted, on any hop of a failover  *)
(* and with any faults.                                                    *)
(***************************************************************************)
ForwardedAsScreened ==
  \A q \in Request :
    handler[q].sent # {} =>
      /\ handler[q].answered \/ handler[q].status \in {0, 502}
      /\ PIIMode = "block" => "pii" \notin handler[q].body.findings
      /\ PromptMode = "block" => "prompt_injection" \notin handler[q].body.findings
      /\ (PIIMode = "redact" /\ "pii" \in handler[q].body.findings)
           => "raw" \notin handler[q].sent

(***************************************************************************)
(* As long as prices stay what they are, a tenant is never charged more    *)
(* than its answered requests cost, whatever fails: an error that follows  *)
(* the charge in RecordTenant does not make recordUsage charge twice, and  *)
(* a request no provider answered is not charged.                          *)
(***************************************************************************)
ReportedCost(t, requests) ==
  SumFunction([q \in requests |-> IF handler[q].tenant = t THEN handler[q].cost ELSE 0])

NeverOvercharged ==
  \A t \in Tenant :
    LedgerTotal(t) <= ReportedCost(t, {q \in Request : handler[q].answered})

(***************************************************************************)
(* Every request that arrives is answered and its goroutine ends, with any *)
(* provider, ledger and audit failures and disconnects, or it waits for    *)
(* ever for a client that neither reads the answer nor disconnects.        *)
(***************************************************************************)
WaitsForClient(q) == At(q, "write") /\ ~handler[q].gone

EveryRequestEnds ==
  \A q \in Request :
    \/ ~At(q, "idle") ~> (At(q, "done") /\ handler[q].status # 0)
    \/ <>[]WaitsForClient(q)

(***************************************************************************)
(* docs/architecture.md, request flow, after copying the provider response *)
(* back: "Record tenant cost, metrics, and audit events."                  *)
(***************************************************************************)
ServedIsCharged ==
  \A t \in Tenant :
    ReportedCost(t, {q \in Request : At(q, "done")}) <= LedgerTotal(t)
=============================================================================
