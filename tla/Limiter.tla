------------------------------ MODULE Limiter ------------------------------
(***************************************************************************)
(* The tenant rate limiter, internal/ratelimit/limiter.go: one token       *)
(* bucket per tenant, refilled from the wall clock on every call of Allow. *)
(*                                                                         *)
(* Allow runs under the limiter's mutex, so a call is one step.  The clock *)
(* is RealClock: time.Now().UTC(), whose UTC() drops the monotonic reading,*)
(* so two calls can see the clock go backwards (an NTP step).  SetClock    *)
(* therefore moves it to any reading.                                      *)
(*                                                                         *)
(* Units: the clock counts ticks, Second ticks to the second.  The code's  *)
(* tokens are requests, as a float; here they are counted in units of      *)
(* 1/Minute of a request, so that a refill, elapsed minutes times requests *)
(* per minute, is the exact integer (ticks elapsed) * requestsPerMinute.   *)
(***************************************************************************)
EXTENDS Integers, Sequences

CONSTANTS
  Tenant,         \* every tenant id the limiter can be asked about
  DefaultTenant,  \* authn.DefaultTenantID
  NoTenant,       \* the empty tenant id
  DefaultCfg,     \* rate_limit of the configuration
  TenantCfg,      \* configured tenant id |-> its rate_limit section
  Second,         \* clock ticks per second
  MaxClock        \* bound: the latest clock reading of the model

RateLimitConfig == [enabled : BOOLEAN, requestsPerMinute : Int, burst : Int]

(***************************************************************************)
(* The configurations that config.Validate lets through.                   *)
(***************************************************************************)
ValidateRateLimit(cfg) ==
  \/ ~cfg.enabled /\ cfg.requestsPerMinute = 0 /\ cfg.burst = 0
  \/ /\ cfg.requestsPerMinute >= 0 /\ cfg.burst >= 0
     /\ cfg.enabled => cfg.requestsPerMinute # 0 /\ cfg.burst # 0

ASSUME TenantAssumption == DefaultTenant \in Tenant /\ NoTenant \notin Tenant

ASSUME ConfigAssumption ==
  /\ DefaultCfg \in RateLimitConfig /\ ValidateRateLimit(DefaultCfg)
  /\ DOMAIN TenantCfg \subseteq Tenant
  /\ \A t \in DOMAIN TenantCfg :
       TenantCfg[t] \in RateLimitConfig /\ ValidateRateLimit(TenantCfg[t])

ASSUME TimeAssumption == Second \in Nat \ {0} /\ MaxClock \in Nat \ {0}

Minute == 60 * Second

----------------------------------------------------------------------------
(***************************************************************************)
(* The limits, fixed when New builds the limiter.                          *)
(***************************************************************************)
LimitFromConfig(cfg) ==
  [enabled |-> cfg.enabled \/ cfg.requestsPerMinute > 0 \/ cfg.burst > 0,
   requestsPerMinute |-> cfg.requestsPerMinute,
   burst |-> cfg.burst]

MergeLimit(base, override) ==
  IF ~override.enabled THEN base
  ELSE [enabled |-> override.enabled,
        requestsPerMinute |-> IF override.requestsPerMinute = 0
                                THEN base.requestsPerMinute
                                ELSE override.requestsPerMinute,
        burst |-> IF override.burst = 0 THEN base.burst ELSE override.burst]

LimitForTenant(t) ==
  IF t \in DOMAIN TenantCfg
    THEN MergeLimit(LimitFromConfig(DefaultCfg), LimitFromConfig(TenantCfg[t]))
    ELSE LimitFromConfig(DefaultCfg)

Enabled(t) == LimitForTenant(t).enabled
Rate(t)    == LimitForTenant(t).requestsPerMinute
Capacity(t) == LimitForTenant(t).burst * Minute

TenantOrDefault(id) == IF id = NoTenant THEN DefaultTenant ELSE id

----------------------------------------------------------------------------
VARIABLES
  clock,      \* the wall clock, in ticks; readings start after the zero time
  buckets,    \* tenant |-> its bucket; a missing map entry is the zero bucket
  decision,   \* tenant |-> what its last Allow returned
  admitted,   \* history: tenant |-> the clock readings of its admissions
  highWater   \* history: tenant |-> the latest reading its bucket has seen

vars == <<clock, buckets, decision, admitted, highWater>>

ZeroTime == 0
ZeroBucket == [tokens |-> 0, updated |-> ZeroTime]
Decision == [allowed : BOOLEAN, retryAfter : Nat]

TypeOK ==
  /\ clock \in Nat \ {0}
  /\ buckets \in [Tenant -> [tokens : Int, updated : Nat]]
  /\ decision \in [Tenant -> Decision]
  /\ admitted \in [Tenant -> Seq(Nat)]
  /\ highWater \in [Tenant -> Nat]

Init ==
  /\ clock \in 1..MaxClock
  /\ buckets = [t \in Tenant |-> ZeroBucket]
  /\ decision = [t \in Tenant |-> [allowed |-> TRUE, retryAfter |-> 0]]
  /\ admitted = [t \in Tenant |-> <<>>]
  /\ highWater = [t \in Tenant |-> ZeroTime]

----------------------------------------------------------------------------
SmallerOf(a, b) == IF a <= b THEN a ELSE b
LargerOf(a, b) == IF a >= b THEN a ELSE b

\* Mutants: no cap at the burst; an empty bucket taken for a missing one; a
\* wait counted in minutes.
RefilledUncapped(t) ==
  LET current == IF buckets[t].updated = ZeroTime
                   THEN [tokens |-> Capacity(t), updated |-> clock]
                   ELSE buckets[t]
  IN  [tokens |-> current.tokens + (clock - current.updated) * Rate(t),
       updated |-> clock]

RefilledWhenEmpty(t) ==
  IF buckets[t].tokens = 0
    THEN [tokens |-> Capacity(t), updated |-> clock]
    ELSE [tokens |-> SmallerOf(Capacity(t),
                               buckets[t].tokens + (clock - buckets[t].updated) * Rate(t)),
          updated |-> clock]

RetryAfterInMinutes(t, tokens) ==
  IF Rate(t) <= 0 THEN 60
  ELSE LargerOf(1, (Minute - tokens) \div (Minute * Rate(t)))

(***************************************************************************)
(* The bucket Allow decides on: created full on the first call, otherwise  *)
(* refilled for the time elapsed and cut off at the burst.                 *)
(***************************************************************************)
Refilled(t) ==
  LET current == IF buckets[t].updated = ZeroTime
                   THEN [tokens |-> Capacity(t), updated |-> clock]
                   ELSE buckets[t]
  IN  [tokens |-> SmallerOf(Capacity(t),
                            current.tokens + (clock - current.updated) * Rate(t)),
       updated |-> clock]

(***************************************************************************)
(* retryAfterSeconds: int() of (1 - tokens) / requestsPerMinute * 60, a    *)
(* truncation, and at least one second.  In the units of this module that  *)
(* quotient is (Minute - tokens) / (Second * requestsPerMinute).           *)
(***************************************************************************)
RetryAfterSeconds(t, tokens) ==
  IF Rate(t) <= 0 THEN 60
  ELSE LargerOf(1, (Minute - tokens) \div (Second * Rate(t)))

Saw(t) == highWater' = [highWater EXCEPT ![t] = LargerOf(@, clock)]

AllowUnlimited(t) ==
  /\ ~Enabled(t)
  /\ decision' = [decision EXCEPT ![t] = [allowed |-> TRUE, retryAfter |-> 0]]
  /\ UNCHANGED <<clock, buckets, admitted, highWater>>

AllowAdmit(t) ==
  /\ Enabled(t)
  /\ Refilled(t).tokens >= Minute
  /\ buckets' = [buckets EXCEPT ![t] = [tokens |-> Refilled(t).tokens - Minute,
                                        updated |-> clock]]
  /\ decision' = [decision EXCEPT ![t] = [allowed |-> TRUE, retryAfter |-> 0]]
  /\ admitted' = [admitted EXCEPT ![t] = Append(@, clock)]
  /\ Saw(t)
  /\ UNCHANGED clock

\* Mutant: the token is taken before the check.
AllowRejectCharged(t) ==
  /\ Enabled(t)
  /\ Refilled(t).tokens < Minute
  /\ buckets' = [buckets EXCEPT ![t] = [tokens |-> Refilled(t).tokens - Minute,
                                        updated |-> clock]]
  /\ decision' = [decision EXCEPT ![t] =
                    [allowed |-> FALSE,
                     retryAfter |-> RetryAfterSeconds(t, Refilled(t).tokens)]]
  /\ Saw(t)
  /\ UNCHANGED <<clock, admitted>>

AllowReject(t) ==
  /\ Enabled(t)
  /\ Refilled(t).tokens < Minute
  /\ buckets' = [buckets EXCEPT ![t] = Refilled(t)]
  /\ decision' = [decision EXCEPT ![t] =
                    [allowed |-> FALSE,
                     retryAfter |-> RetryAfterSeconds(t, Refilled(t).tokens)]]
  /\ Saw(t)
  /\ UNCHANGED <<clock, admitted>>

AllowKnown(t) == AllowUnlimited(t) \/ AllowAdmit(t) \/ AllowReject(t)

Allow(tenantID) == AllowKnown(TenantOrDefault(tenantID))

(***************************************************************************)
(* The environment: the wall clock moves, forwards or backwards.           *)
(***************************************************************************)
SetClock(now) ==
  /\ clock' = now
  /\ UNCHANGED <<buckets, decision, admitted, highWater>>

Next ==
  \/ \E id \in Tenant \cup {NoTenant} : Allow(id)
  \/ \E now \in 1..MaxClock : SetClock(now)

Spec == Init /\ [][Next]_vars

----------------------------------------------------------------------------
(***************************************************************************)
(* In any stretch of a tenant's admissions, from the i-th to the j-th, no  *)
(* more requests are admitted than the burst plus what the rate yields     *)
(* over the time between them.  The promise of requests_per_minute and     *)
(* burst (limiter.go Allow), whatever the clock does in between.           *)
(***************************************************************************)
SlidingWindow ==
  \A t \in Tenant : \A i, j \in 1..Len(admitted[t]) :
    i <= j => (j - i + 1) * Minute
                <= Capacity(t) + (admitted[t][j] - admitted[t][i]) * Rate(t)

(***************************************************************************)
(* A backward step of the clock drives the tokens below zero (elapsed is   *)
(* negative in Allow), but never by more than the clock itself has to make *)
(* up: once it is back at the latest reading the bucket saw, no tokens are *)
(* missing.  Rejected calls cost nothing.                                  *)
(***************************************************************************)
ClockStepRecovers ==
  \A t \in Tenant :
    buckets[t].updated # ZeroTime =>
      buckets[t].tokens >= (buckets[t].updated - highWater[t]) * Rate(t)

(***************************************************************************)
(* What makes the two invariants inductive: a full account of the tokens.  *)
(* Every admission since the i-th, and every token left, was in the bucket *)
(* at the i-th or has been refilled since.                                 *)
(***************************************************************************)
TokensAccounted ==
  \A t \in Tenant :
    /\ buckets[t].tokens <= Capacity(t)
    /\ buckets[t].updated <= highWater[t]
    /\ buckets[t].updated = ZeroTime => admitted[t] = <<>>
    /\ \A i \in 1..Len(admitted[t]) :
         (Len(admitted[t]) - i + 1) * Minute + buckets[t].tokens
           <= Capacity(t) + (buckets[t].updated - admitted[t][i]) * Rate(t)

(***************************************************************************)
(* Retry-After is right to within a second, whatever the clock does: a     *)
(* client that was rejected and comes back one second after the time it    *)
(* was given (retryAfterSeconds truncates) is admitted, if the bucket can  *)
(* hold a token and is refilled at all; and a wait of more than the        *)
(* one-second minimum is one during which every call is rejected.          *)
(***************************************************************************)
RetryAfterExact ==
  [][\A t \in Tenant :
       AllowKnown(t) /\ ~decision[t].allowed /\ Rate(t) > 0 =>
         /\ (/\ Capacity(t) > 0
             /\ clock >= buckets[t].updated + (decision[t].retryAfter + 1) * Second)
               => decision'[t].allowed
         /\ (/\ decision[t].retryAfter > 1
             /\ clock < buckets[t].updated + decision[t].retryAfter * Second)
               => ~decision'[t].allowed]_vars
=============================================================================
