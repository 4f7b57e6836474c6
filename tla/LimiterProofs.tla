--------------------------- MODULE LimiterProofs ---------------------------
(***************************************************************************)
(* Proofs about the rate limiter, for every set of tenants, every valid    *)
(* configuration and every behaviour of the clock.  The inductive          *)
(* invariant is the account of the tokens, TokensAccounted; the products   *)
(* of a rate and a time are handled by the arithmetic lemmas below.        *)
(***************************************************************************)
EXTENDS Limiter, TLAPS

(***************************************************************************)
(* The account the proofs carry along: types, the account of the tokens,   *)
(* and the two promises of the bucket that follow from it step by step.    *)
(***************************************************************************)
IInv == TypeOK /\ TokensAccounted /\ ClockStepRecovers /\ SlidingWindow

----------------------------------------------------------------------------
(***************************************************************************)
(* Multiplying by a natural number keeps an inequality (the refill,        *)
(* elapsed * requestsPerMinute, grows with the time).                      *)
(***************************************************************************)
LEMMA TimesMonotone ==
  ASSUME NEW r \in Nat, NEW x \in Int, NEW y \in Int, x <= y
  PROVE  x * r \in Int /\ y * r \in Int /\ x * r <= y * r
OBVIOUS

(***************************************************************************)
(* Products of integers are integers.                                      *)
(***************************************************************************)
LEMMA TimesInt ==
  ASSUME NEW x \in Int, NEW y \in Int
  PROVE  x * y \in Int
OBVIOUS

(***************************************************************************)
(* Two refills in a row are one refill over the sum of the times.          *)
(***************************************************************************)
LEMMA RefillAdds ==
  ASSUME NEW r \in Nat, NEW x \in Int, NEW y \in Int, NEW z \in Int
  PROVE  (x - y) * r + (y - z) * r = (x - z) * r
OBVIOUS

(***************************************************************************)
(* A valid configuration gives every tenant a limit without negative       *)
(* numbers (validateRateLimit, limitFromConfig, mergeLimit).               *)
(***************************************************************************)
LEMMA LimitFacts ==
  ASSUME NEW t \in Tenant
  PROVE  Rate(t) \in Nat /\ Capacity(t) \in Nat /\ Minute \in Nat \ {0}
<1>1. Minute \in Nat \ {0}
  BY TimeAssumption DEF Minute
<1>2. ASSUME NEW cfg \in RateLimitConfig, ValidateRateLimit(cfg)
      PROVE  /\ LimitFromConfig(cfg).requestsPerMinute \in Nat
             /\ LimitFromConfig(cfg).burst \in Nat
  BY <1>2 DEF RateLimitConfig, ValidateRateLimit, LimitFromConfig
<1>3. /\ LimitForTenant(t).requestsPerMinute \in Nat
      /\ LimitForTenant(t).burst \in Nat
  <2>1. /\ LimitFromConfig(DefaultCfg).requestsPerMinute \in Nat
        /\ LimitFromConfig(DefaultCfg).burst \in Nat
    BY <1>2, ConfigAssumption
  <2>2. CASE t \notin DOMAIN TenantCfg
    BY <2>1, <2>2 DEF LimitForTenant
  <2>3. CASE t \in DOMAIN TenantCfg
    <3>1. /\ LimitFromConfig(TenantCfg[t]).requestsPerMinute \in Nat
          /\ LimitFromConfig(TenantCfg[t]).burst \in Nat
      BY <1>2, <2>3, ConfigAssumption
    <3> QED
      BY <2>1, <2>3, <3>1 DEF LimitForTenant, MergeLimit
  <2> QED
    BY <2>2, <2>3
<1>4. Capacity(t) \in Nat
  <2>1. ASSUME NEW b \in Nat, NEW m \in Nat PROVE b * m \in Nat
    OBVIOUS
  <2> QED
    BY <1>1, <1>3, <2>1 DEF Capacity
<1> QED
  BY <1>1, <1>3, <1>4 DEF Rate

(***************************************************************************)
(* Retry-After is a number of seconds: never negative.                     *)
(***************************************************************************)
LEMMA RetryAfterFacts ==
  ASSUME NEW t \in Tenant, NEW tokens \in Int
  PROVE  RetryAfterSeconds(t, tokens) \in Nat
<1>1. Rate(t) \in Nat /\ Minute \in Nat
  BY LimitFacts
<1>2. CASE Rate(t) <= 0
  BY <1>2 DEF RetryAfterSeconds
<1>3. CASE ~(Rate(t) <= 0)
  <2>1. ASSUME NEW s \in Nat \ {0}, NEW r \in Nat \ {0} PROVE s * r \in Nat \ {0}
    OBVIOUS
  <2>2. Second * Rate(t) \in Nat \ {0}
    BY <1>1, <1>3, <2>1, TimeAssumption
  <2>3. ASSUME NEW n \in Int, NEW d \in Nat \ {0} PROVE n \div d \in Int
    OBVIOUS
  <2>4. (Minute - tokens) \div (Second * Rate(t)) \in Int
    BY <1>1, <2>2, <2>3
  <2> QED
    BY <1>3, <2>4 DEF RetryAfterSeconds, LargerOf
<1> QED
  BY <1>2, <1>3

----------------------------------------------------------------------------
(***************************************************************************)
(* What the refill at the start of Allow gives: never more than the burst, *)
(* never more than the tokens left plus the refill, and never less than    *)
(* what the clock is short of the latest reading the bucket has seen.      *)
(***************************************************************************)
LEMMA RefillFacts ==
  ASSUME NEW t \in Tenant, TypeOK, TokensAccounted, ClockStepRecovers
  PROVE  /\ Refilled(t).tokens \in Int
         /\ Refilled(t).tokens <= Capacity(t)
         /\ buckets[t].updated # ZeroTime =>
              Refilled(t).tokens
                <= buckets[t].tokens + (clock - buckets[t].updated) * Rate(t)
         /\ Refilled(t).tokens >= (clock - LargerOf(highWater[t], clock)) * Rate(t)
<1> DEFINE r == Rate(t)
           cap == Capacity(t)
           b == buckets[t].tokens
           u == buckets[t].updated
           h == highWater[t]
           top == LargerOf(h, clock)
<1>1. /\ r \in Nat /\ cap \in Nat /\ b \in Int /\ u \in Nat /\ h \in Nat
      /\ clock \in Nat /\ top \in Nat /\ h <= top /\ clock <= top
  BY LimitFacts DEF TypeOK, LargerOf
<1>2. (clock - top) * r <= 0 /\ (clock - top) * r \in Int
  <2>1. (clock - top) * r <= 0 * r
    BY <1>1, TimesMonotone
  <2> QED
    BY <1>1, <2>1
<1>3. CASE u = ZeroTime
  <2>1. (clock - clock) * r = 0
    BY <1>1
  <2>2. Refilled(t).tokens = cap
    BY <1>1, <1>3, <2>1 DEF Refilled, SmallerOf
  <2> QED
    BY <1>1, <1>2, <1>3, <2>2
<1>4. CASE u # ZeroTime
  <2>1. (clock - u) * r \in Int /\ (u - h) * r \in Int /\ (clock - h) * r \in Int
    BY <1>1
  <2>2. Refilled(t).tokens = SmallerOf(cap, b + (clock - u) * r)
    BY <1>4 DEF Refilled
  <2>3. b >= (u - h) * r
    BY <1>4 DEF ClockStepRecovers
  <2>4. (clock - u) * r + (u - h) * r = (clock - h) * r
    BY <1>1, RefillAdds
  <2>5. (clock - top) * r <= (clock - h) * r
    BY <1>1, TimesMonotone
  <2> HIDE DEF r, cap, b, u, h, top
  <2>6. b + (clock - u) * r >= (clock - top) * r
    BY <1>1, <1>2, <2>1, <2>3, <2>4, <2>5
  <2> QED
    BY <1>1, <1>2, <2>1, <2>2, <2>6 DEF SmallerOf, r, cap, b, u, top, h
<1> QED
  BY <1>3, <1>4

(***************************************************************************)
(* Every call of Allow is about a tenant: the empty id stands for the      *)
(* default tenant.                                                         *)
(***************************************************************************)
LEMMA AllowIsKnown ==
  ASSUME NEW id \in Tenant \cup {NoTenant}, Allow(id)
  PROVE  \E t \in Tenant : AllowKnown(t)
BY TenantAssumption DEF Allow, TenantOrDefault

----------------------------------------------------------------------------
(***************************************************************************)
(* Type correctness of the limiter's state through every call of Allow.    *)
(***************************************************************************)
LEMMA TypeStep ==
  ASSUME IInv, [Next]_vars
  PROVE  TypeOK'
<1> USE DEF IInv
<1>1. ASSUME NEW t \in Tenant, AllowKnown(t)
      PROVE  TypeOK'
  <2>1. Refilled(t).tokens \in Int /\ Minute \in Nat
    BY RefillFacts, LimitFacts
  <2>2. CASE AllowUnlimited(t)
    BY <2>2 DEF AllowUnlimited, TypeOK, Decision
  <2>3. CASE AllowAdmit(t)
    <3>1. Refilled(t).tokens - Minute \in Int
      BY <2>1
    <3> QED
      BY <2>3, <3>1 DEF AllowAdmit, TypeOK, Decision, Saw, LargerOf
  <2>4. CASE AllowReject(t)
    <3>1. RetryAfterSeconds(t, Refilled(t).tokens) \in Nat
      BY <2>1, RetryAfterFacts
    <3>2. Refilled(t) = [tokens |-> Refilled(t).tokens, updated |-> clock]
      BY DEF Refilled
    <3> QED
      BY <2>1, <2>4, <3>1, <3>2 DEF AllowReject, TypeOK, Decision, Saw, LargerOf
  <2> QED
    BY <1>1, <2>2, <2>3, <2>4 DEF AllowKnown
<1>2. ASSUME NEW now \in 1..MaxClock, SetClock(now)
      PROVE  TypeOK'
  BY <1>2, TimeAssumption DEF SetClock, TypeOK
<1>3. CASE UNCHANGED vars
  BY <1>3 DEF vars, TypeOK
<1> QED
  BY <1>1, <1>2, <1>3, AllowIsKnown DEF Next

(***************************************************************************)
(* A call of Allow that takes spent tokens, one request's worth or none:   *)
(* the common part of an admission and a rejection.                        *)
(***************************************************************************)
Takes(t, spent) ==
  /\ spent = 0 \/ (spent = Minute /\ Refilled(t).tokens >= Minute)
  /\ buckets' = [buckets EXCEPT ![t] = [tokens |-> Refilled(t).tokens - spent,
                                        updated |-> clock]]
  /\ highWater' = [highWater EXCEPT ![t] = LargerOf(highWater[t], clock)]
  /\ admitted' = IF spent = 0 THEN admitted
                 ELSE [admitted EXCEPT ![t] = Append(admitted[t], clock)]
  /\ clock' = clock

(***************************************************************************)
(* Every call of Allow for an enabled tenant is such a step (limiter.go    *)
(* Allow).                                                                 *)
(***************************************************************************)
LEMMA AllowTakes ==
  ASSUME IInv, NEW t \in Tenant, AllowAdmit(t) \/ AllowReject(t)
  PROVE  Takes(t, Minute) \/ Takes(t, 0)
<1>1. Refilled(t).tokens \in Int /\ Minute \in Nat \ {0}
  BY RefillFacts, LimitFacts DEF IInv
<1>2. CASE AllowAdmit(t)
  BY <1>1, <1>2 DEF AllowAdmit, Saw, Takes
<1>3. CASE AllowReject(t)
  <2>1. Refilled(t) = [tokens |-> Refilled(t).tokens, updated |-> clock]
    BY DEF Refilled
  <2>2. Refilled(t).tokens - 0 = Refilled(t).tokens
    BY <1>1
  <2> QED
    BY <1>3, <2>1, <2>2 DEF AllowReject, Saw, Takes
<1> QED
  BY <1>2, <1>3

(***************************************************************************)
(* The account of the tokens survives every call of Allow: an admission    *)
(* moves one request from the tokens to the history, a refill adds no more *)
(* than the rate times the time, the cap at the burst only takes away.     *)
(***************************************************************************)
LEMMA AccountStep ==
  ASSUME IInv, NEW t \in Tenant, NEW spent, Takes(t, spent)
  PROVE  TokensAccounted' /\ ClockStepRecovers'
<1> DEFINE r == Rate(t)
           cap == Capacity(t)
           f == Refilled(t).tokens
           n == Len(admitted[t])
           hw == LargerOf(highWater[t], clock)
<1>1. /\ r \in Nat /\ cap \in Nat /\ f \in Int /\ Minute \in Nat \ {0}
      /\ f <= cap /\ f >= (clock - hw) * r
  BY RefillFacts, LimitFacts DEF IInv
<1>2. /\ clock \in Nat \ {0} /\ n \in Nat /\ hw \in Nat /\ clock <= hw
      /\ spent \in Nat /\ f - spent \in Int /\ admitted[t] \in Seq(Nat)
  BY <1>1 DEF IInv, TypeOK, LargerOf, Takes
<1>3. /\ buckets'[t].tokens = f - spent
      /\ buckets'[t].updated = clock
      /\ highWater'[t] = hw
      /\ spent = 0 \/ (spent = Minute /\ f >= Minute)
  BY DEF IInv, TypeOK, Takes
<1>4. \A s \in Tenant \ {t} :
        /\ buckets'[s] = buckets[s]
        /\ highWater'[s] = highWater[s]
        /\ admitted'[s] = admitted[s]
  BY DEF IInv, TypeOK, Takes
<1> HIDE DEF r, cap, f, n, hw
<1>5. f - spent >= (clock - hw) * r
  <2>1. CASE spent = 0
    BY <1>1, <2>1
  <2>2. CASE spent # 0
    <3>1. f - spent >= 0
      BY <1>1, <1>3, <2>2
    <3>2. clock - hw \in Int /\ clock - hw <= 0
      BY <1>2
    <3>3. (clock - hw) * r <= 0 * r /\ (clock - hw) * r \in Int
      BY <1>1, <3>2, TimesMonotone
    <3>4. 0 * r = 0
      BY <1>1
    <3> QED
      BY <1>2, <3>1, <3>3, <3>4
  <2> QED
    BY <2>1, <2>2
<1>6. ClockStepRecovers'
  BY <1>3, <1>4, <1>5 DEF IInv, ClockStepRecovers, r
<1>7. ASSUME NEW i \in 1..n
      PROVE  (n - i + 1) * Minute + f <= cap + (clock - admitted[t][i]) * r
  <2> DEFINE a == admitted[t][i]
             u == buckets[t].updated
             b == buckets[t].tokens
             k == (n - i + 1) * Minute
  <2>1. u # ZeroTime /\ u \in Nat /\ a \in Nat /\ b \in Int
    BY <1>2 DEF IInv, TypeOK, TokensAccounted, n
  <2>2. k + b <= cap + (u - a) * r
    BY DEF IInv, TokensAccounted, n, cap, r
  <2>3. f <= b + (clock - u) * r
    BY <2>1, RefillFacts DEF IInv, f, r
  <2>4. n - i + 1 \in Int /\ clock - u \in Int /\ u - a \in Int /\ clock - a \in Int
    BY <1>2, <2>1
  <2>5. /\ k \in Int /\ (clock - u) * r \in Int
        /\ (u - a) * r \in Int /\ (clock - a) * r \in Int
    BY <1>1, <2>4, TimesInt
  <2> HIDE DEF a, u, b, k
  <2>6. (clock - u) * r + (u - a) * r = (clock - a) * r
    BY <1>1, <1>2, <2>1, RefillAdds
  <2>7. k + f <= cap + (clock - a) * r
    BY <1>1, <2>1, <2>2, <2>3, <2>5, <2>6
  <2> QED
    BY <2>7 DEF a, k
<1>8. \A i \in 1..Len(admitted'[t]) :
        (Len(admitted'[t]) - i + 1) * Minute + (f - spent)
          <= cap + (clock - admitted'[t][i]) * r
  <2>1. CASE spent = 0
    <3>1. admitted'[t] = admitted[t] /\ f - spent = f
      BY <1>1, <2>1 DEF Takes
    <3> QED
      BY <1>7, <3>1 DEF n
  <2>2. CASE spent # 0
    <3>1. admitted'[t] = Append(admitted[t], clock) /\ spent = Minute
      BY <2>2 DEF IInv, TypeOK, Takes
    <3>2. /\ Len(admitted'[t]) = n + 1
          /\ admitted'[t][n + 1] = clock
          /\ \A i \in 1..n : admitted'[t][i] = admitted[t][i]
      BY <1>2, <3>1 DEF n
    <3> SUFFICES ASSUME NEW i \in 1..Len(admitted'[t])
                 PROVE  (Len(admitted'[t]) - i + 1) * Minute + (f - spent)
                          <= cap + (clock - admitted'[t][i]) * r
      OBVIOUS
    <3>5. Len(admitted'[t]) - i + 1 = n + 1 - i + 1
      <4>1. Len(admitted'[t]) = n + 1
        BY <3>2
      <4> QED
        BY <1>2, <4>1
    <3>6. f - spent = f - Minute
      BY <3>1
    <3> SUFFICES (n + 1 - i + 1) * Minute + (f - Minute)
                   <= cap + (clock - admitted'[t][i]) * r
      BY <3>5, <3>6, Zenon
    <3>3. CASE i = n + 1
      <4>1. (clock - clock) * r = 0 /\ (n + 1 - i + 1) * Minute = Minute
        BY <1>1, <1>2, <3>3
      <4> QED
        BY <1>1, <3>2, <3>3, <4>1
    <3>4. CASE i \in 1..n
      <4> DEFINE k == (n - i + 1) * Minute
                 g == (clock - admitted[t][i]) * r
      <4>1. (n + 1 - i + 1) * Minute = k + Minute
        <5>1. ASSUME NEW x \in Int, NEW m \in Int PROVE (x + 1) * m = x * m + m
          OBVIOUS
        <5>2. n - i + 1 \in Int /\ n + 1 - i + 1 = (n - i + 1) + 1
          BY <1>2
        <5> QED
          BY <1>1, <5>1, <5>2
      <4>2. k + f <= cap + g /\ admitted'[t][i] = admitted[t][i]
        BY <1>7, <3>2, <3>4
      <4>3. k \in Int /\ g \in Int
        <5>1. n - i + 1 \in Int /\ clock - admitted[t][i] \in Int
          <6>1. admitted[t][i] \in Nat
            BY <1>2, <3>4 DEF n
          <6> QED
            BY <1>2, <6>1
        <5> QED
          BY <1>1, <5>1, TimesInt
      <4>4. k + Minute + (f - Minute) <= cap + g
        <5> HIDE DEF k, g
        <5> QED BY <1>1, <4>2, <4>3
      <4> QED
        BY <4>1, <4>2, <4>4
    <3> QED
      BY <1>2, <3>2, <3>3, <3>4
  <2> QED
    BY <2>1, <2>2
<1>9. f - spent <= cap /\ clock <= hw /\ clock # ZeroTime
  BY <1>1, <1>2 DEF ZeroTime
<1>10. TokensAccounted'
  BY <1>3, <1>4, <1>8, <1>9 DEF IInv, TokensAccounted, ZeroTime, cap, r
<1> QED
  BY <1>6, <1>10

(***************************************************************************)
(* A new admission keeps within the sliding window, because the account    *)
(* already counts it and the tokens it leaves are not negative.            *)
(***************************************************************************)
LEMMA WindowStep ==
  ASSUME IInv, NEW t \in Tenant, NEW spent, Takes(t, spent), TypeOK', TokensAccounted'
  PROVE  SlidingWindow'
<1>1. CASE spent = 0
  BY <1>1 DEF IInv, SlidingWindow, Takes
<1>2. CASE spent # 0
  <2> DEFINE n == Len(admitted[t])
             f == Refilled(t).tokens
  <2>1. /\ Rate(t) \in Nat /\ Capacity(t) \in Nat /\ Minute \in Nat \ {0}
        /\ f \in Int
    BY RefillFacts, LimitFacts DEF IInv
  <2>6. clock \in Nat /\ n \in Nat /\ f - Minute >= 0
    BY <1>2, <2>1 DEF IInv, TypeOK, Takes
  <2>2. /\ buckets'[t].tokens = f - Minute /\ buckets'[t].updated = clock
        /\ admitted'[t] = Append(admitted[t], clock)
        /\ \A s \in Tenant \ {t} : admitted'[s] = admitted[s]
    BY <1>2 DEF IInv, TypeOK, Takes
  <2>3. /\ Len(admitted'[t]) = n + 1
        /\ admitted'[t][n + 1] = clock
        /\ \A i \in 1..n : admitted'[t][i] = admitted[t][i]
    BY <2>2 DEF IInv, TypeOK
  <2> HIDE DEF f
  <2>4. ASSUME NEW i \in 1..(n + 1)
        PROVE  (n + 1 - i + 1) * Minute <= Capacity(t) + (clock - admitted'[t][i]) * Rate(t)
    <3> DEFINE k == (n + 1 - i + 1) * Minute
               g == (clock - admitted'[t][i]) * Rate(t)
    <3>1. admitted'[t][i] \in Nat
      BY <2>3 DEF TypeOK
    <3>2. k \in Int /\ g \in Int
      <4>1. n + 1 - i + 1 \in Int /\ clock - admitted'[t][i] \in Int
        BY <2>6, <3>1
      <4> QED
        BY <2>1, <4>1, TimesInt
    <3>3. k + (f - Minute) <= Capacity(t) + g
      <4>1. (Len(admitted'[t]) - i + 1) * Minute + buckets'[t].tokens
              <= Capacity(t) + (buckets'[t].updated - admitted'[t][i]) * Rate(t)
        BY <2>3 DEF TokensAccounted
      <4> QED
        BY <2>2, <2>3, <4>1
    <3> HIDE DEF k, g
    <3>4. k <= Capacity(t) + g
      BY <2>1, <2>6, <3>2, <3>3
    <3> QED
      BY <3>4 DEF k, g
  <2>5. ASSUME NEW i \in 1..(n + 1), NEW j \in 1..(n + 1), i <= j
        PROVE  (j - i + 1) * Minute
                 <= Capacity(t) + (admitted'[t][j] - admitted'[t][i]) * Rate(t)
    <3>1. CASE j = n + 1
      BY <2>3, <2>4, <3>1
    <3>2. CASE j # n + 1
      <4>1. i \in 1..n /\ j \in 1..n
        BY <2>5, <2>6, <3>2
      <4>2. admitted'[t][i] = admitted[t][i] /\ admitted'[t][j] = admitted[t][j]
        BY <2>3, <4>1
      <4> QED
        BY <2>5, <4>1, <4>2 DEF IInv, SlidingWindow
    <3> QED
      BY <3>1, <3>2
  <2> HIDE DEF n
  <2> QED
    BY <2>2, <2>3, <2>5 DEF IInv, SlidingWindow
<1> QED
  BY <1>1, <1>2

----------------------------------------------------------------------------
(***************************************************************************)
(* The initial state of New satisfies the invariant.                       *)
(***************************************************************************)
LEMMA InitInv == Init => IInv
<1> SUFFICES ASSUME Init PROVE IInv
  OBVIOUS
<1>1. TypeOK
  BY TimeAssumption DEF Init, TypeOK, ZeroBucket, ZeroTime, Decision
<1>2. \A t \in Tenant : Capacity(t) \in Nat
  BY LimitFacts
<1>3. TokensAccounted
  <2>1. \A t \in Tenant : 1..Len(admitted[t]) = {}
    <3>1. \A t \in Tenant : admitted[t] = <<>>
      BY DEF Init
    <3>2. 1..Len(<<>>) = {}
      OBVIOUS
    <3> QED
      BY <3>1, <3>2
  <2>2. \A t \in Tenant : /\ buckets[t].tokens = 0 /\ buckets[t].updated = 0
                          /\ highWater[t] = 0 /\ admitted[t] = <<>>
    BY DEF Init, ZeroBucket, ZeroTime
  <2> QED
    <3> SUFFICES ASSUME NEW t \in Tenant
                 PROVE  /\ buckets[t].tokens <= Capacity(t)
                        /\ buckets[t].updated <= highWater[t]
      BY <2>1, <2>2 DEF TokensAccounted
    <3> QED
      BY <1>2, <2>2
<1>4. ClockStepRecovers /\ SlidingWindow
  BY DEF Init, ClockStepRecovers, SlidingWindow, ZeroBucket, ZeroTime
<1> QED
  BY <1>1, <1>3, <1>4 DEF IInv

(***************************************************************************)
(* Every step of the limiter and of the clock keeps the invariant.         *)
(***************************************************************************)
LEMMA NextInv == IInv /\ [Next]_vars => IInv'
<1> SUFFICES ASSUME IInv, [Next]_vars PROVE IInv'
  OBVIOUS
<1>1. TypeOK'
  BY TypeStep
<1>2. ASSUME NEW t \in Tenant, AllowAdmit(t) \/ AllowReject(t)
      PROVE  IInv'
  BY <1>1, <1>2, AllowTakes, AccountStep, WindowStep DEF IInv
<1>3. ASSUME NEW t \in Tenant, AllowUnlimited(t)
      PROVE  IInv'
  BY <1>1, <1>3 DEF AllowUnlimited, IInv, TokensAccounted, ClockStepRecovers, SlidingWindow
<1>4. ASSUME NEW now \in 1..MaxClock, SetClock(now)
      PROVE  IInv'
  BY <1>1, <1>4 DEF SetClock, IInv, TokensAccounted, ClockStepRecovers, SlidingWindow
<1>5. CASE UNCHANGED vars
  BY <1>1, <1>5 DEF vars, IInv, TokensAccounted, ClockStepRecovers, SlidingWindow
<1> QED
  BY <1>2, <1>3, <1>4, <1>5, AllowIsKnown DEF Next, AllowKnown

(***************************************************************************)
(* The account of the tokens holds at all times, for any configuration.    *)
(***************************************************************************)
THEOREM Account == Spec => []IInv
BY InitInv, NextInv, PTL DEF Spec

(***************************************************************************)
(* The state of the limiter keeps its types: in particular Retry-After is  *)
(* never negative.                                                         *)
(***************************************************************************)
THEOREM TypeCorrect == Spec => []TypeOK
<1>1. IInv => TypeOK
  BY DEF IInv
<1> QED
  BY <1>1, Account, PTL

(***************************************************************************)
(* Over any stretch of time the limiter admits at most the burst plus the  *)
(* rate times the time, for every valid configuration and every behaviour  *)
(* of the clock (limiter.go Allow).                                        *)
(***************************************************************************)
THEOREM RateLimited == Spec => []SlidingWindow
<1>1. IInv => SlidingWindow
  BY DEF IInv
<1> QED
  BY <1>1, Account, PTL

(***************************************************************************)
(* A backward step of the clock costs a tenant no more than the clock's    *)
(* own delay (limiter.go Allow with a negative elapsed).                   *)
(***************************************************************************)
THEOREM ClockStepHarmless == Spec => []ClockStepRecovers
<1>1. IInv => ClockStepRecovers
  BY DEF IInv
<1> QED
  BY <1>1, Account, PTL

(***************************************************************************)
(* The full account of the tokens (limiter.go Allow): every admission      *)
(* since the i-th, and every token left, is covered by the burst and by    *)
(* what was refilled since.                                                *)
(***************************************************************************)
THEOREM TokensTheorem == Spec => []TokensAccounted
<1>1. IInv => TokensAccounted
  BY DEF IInv
<1> QED
  BY <1>1, Account, PTL

----------------------------------------------------------------------------
(***************************************************************************)
(* What a rejection leaves behind until the tenant's next call: a bucket   *)
(* with less than one request, and the wait computed from its tokens       *)
(* (limiter.go Allow, retryAfterSeconds).                                  *)
(***************************************************************************)
Waiting ==
  \A t \in Tenant :
    ~decision[t].allowed =>
      /\ Enabled(t)
      /\ buckets[t].updated # ZeroTime
      /\ buckets[t].tokens < Minute
      /\ decision[t].retryAfter = RetryAfterSeconds(t, buckets[t].tokens)

(***************************************************************************)
(* No call of another tenant and no step of the clock touches what a       *)
(* rejection left behind (limiter.go Allow).                               *)
(***************************************************************************)
LEMMA WaitingStep == IInv /\ Waiting /\ [Next]_vars => Waiting'
<1> SUFFICES ASSUME IInv, Waiting, [Next]_vars PROVE Waiting'
  OBVIOUS
<1>1. ASSUME NEW t \in Tenant, AllowKnown(t)
      PROVE  Waiting'
  <2>1. CASE AllowUnlimited(t)
    BY <2>1 DEF AllowUnlimited, Waiting, IInv, TypeOK
  <2>2. CASE AllowAdmit(t)
    BY <2>2 DEF AllowAdmit, Waiting, IInv, TypeOK
  <2>3. CASE AllowReject(t)
    <3>1. Refilled(t).updated = clock /\ clock # ZeroTime
      BY DEF Refilled, IInv, TypeOK, ZeroTime
    <3> HIDE DEF Refilled
    <3> QED
      BY <2>3, <3>1 DEF AllowReject, Waiting, IInv, TypeOK
  <2> QED
    BY <1>1, <2>1, <2>2, <2>3 DEF AllowKnown
<1>2. ASSUME NEW now \in 1..MaxClock, SetClock(now)
      PROVE  Waiting'
  BY <1>2 DEF SetClock, Waiting
<1>3. CASE UNCHANGED vars
  BY <1>3 DEF vars, Waiting
<1> QED
  BY <1>1, <1>2, <1>3, AllowIsKnown DEF Next

(***************************************************************************)
(* The truncating division of retryAfterSeconds: n lies in [q*d, (q+1)*d). *)
(***************************************************************************)
LEMMA Truncated ==
  ASSUME NEW n \in Int, NEW d \in Nat \ {0}
  PROVE  /\ n \div d \in Int
         /\ (n \div d) * d <= n
         /\ n < (n \div d + 1) * d
<1>1. n \div d \in Int /\ n % d \in 0..(d - 1)
  BY SMTT(30)
<1>2. n = (n \div d) * d + (n % d)
  BY SMTT(30)
<1> DEFINE q == n \div d
<1>3. q \in Int /\ q * d \in Int /\ (q + 1) * d = q * d + d
  BY <1>1
<1> HIDE DEF q
<1> QED
  BY <1>1, <1>2, <1>3 DEF q

(***************************************************************************)
(* The next call after a rejection refills from the tokens the wait was    *)
(* computed from: it finds a whole request after one second more than the  *)
(* wait, and none before a wait of more than the minimum is over.          *)
(***************************************************************************)
LEMMA WaitSufficesAndIsNeeded ==
  ASSUME IInv, Waiting, NEW t \in Tenant, ~decision[t].allowed, Rate(t) > 0
  PROVE  LET w == decision[t].retryAfter
             u == buckets[t].updated
         IN  /\ Capacity(t) > 0 /\ clock >= u + (w + 1) * Second
                  => Refilled(t).tokens >= Minute
             /\ w > 1 /\ clock < u + w * Second => Refilled(t).tokens < Minute
<1> DEFINE r == Rate(t)
           cap == Capacity(t)
           b == buckets[t].tokens
           u == buckets[t].updated
           w == decision[t].retryAfter
           d == Second * r
           q == (Minute - b) \div d
           e == clock - u
<1>1. /\ r \in Nat \ {0} /\ cap \in Nat /\ Minute \in Nat \ {0} /\ b \in Int
      /\ u \in Nat /\ w \in Nat /\ clock \in Nat /\ e \in Int
      /\ Second \in Nat \ {0}
  BY LimitFacts, TimeAssumption DEF IInv, TypeOK, Decision
<1>2. Refilled(t).tokens = SmallerOf(cap, b + e * r) /\ b < Minute
  BY DEF Refilled, Waiting
<1>3. d \in Nat \ {0}
  <2>1. ASSUME NEW x \in Nat \ {0}, NEW y \in Nat \ {0} PROVE x * y \in Nat \ {0}
    OBVIOUS
  <2> QED
    BY <1>1, <2>1
<1>4. q \in Int /\ q * d <= Minute - b /\ Minute - b < (q + 1) * d
  <2> HIDE DEF d, b
  <2> QED
    BY <1>1, <1>3, Truncated
<1>5. w = LargerOf(1, q)
  BY <1>1 DEF Waiting, RetryAfterSeconds
<1>6. e * r \in Int
  BY <1>1, TimesInt
<1>7. ASSUME NEW k \in Int PROVE k * Second \in Int /\ (k * Second) * r = k * d
  <2>1. ASSUME NEW x \in Int, NEW y \in Int, NEW z \in Int
        PROVE  x * y \in Int /\ (x * y) * z = x * (y * z)
    OBVIOUS
  <2> QED
    BY <1>1, <2>1
<1>8. ASSUME cap > 0 PROVE cap >= Minute
  <2>1. LimitForTenant(t).burst \in Int
    <3>1. LimitFromConfig(DefaultCfg).burst \in Int
      BY ConfigAssumption DEF LimitFromConfig, RateLimitConfig
    <3>2. t \in DOMAIN TenantCfg => LimitFromConfig(TenantCfg[t]).burst \in Int
      BY ConfigAssumption DEF LimitFromConfig, RateLimitConfig
    <3> QED
      BY <3>1, <3>2 DEF LimitForTenant, MergeLimit
  <2>2. ASSUME NEW x \in Int, NEW m \in Nat \ {0}, x * m > 0 PROVE x * m >= m
    <3>1. x >= 1
      <4>1. ASSUME x <= 0 PROVE x * m <= 0 * m
        BY <4>1, TimesMonotone
      <4> QED
        BY <2>2, <4>1
    <3>2. 1 * m <= x * m
      BY <3>1, TimesMonotone
    <3> QED
      BY <3>2
  <2> QED
    BY <1>1, <1>8, <2>1, <2>2 DEF Capacity
<1>9. ASSUME cap > 0, clock >= u + (w + 1) * Second
      PROVE  Refilled(t).tokens >= Minute
  <2>1. w + 1 \in Int /\ q + 1 \in Int /\ q + 1 <= w + 1
    BY <1>1, <1>4, <1>5 DEF LargerOf
  <2>2. (w + 1) * Second \in Int /\ ((w + 1) * Second) * r = (w + 1) * d
    BY <1>7, <2>1
  <2>3. (w + 1) * Second <= e
    BY <1>1, <1>9, <2>2
  <2>4. (w + 1) * d <= e * r
    BY <1>1, <2>2, <2>3, TimesMonotone
  <2>5. (q + 1) * d <= (w + 1) * d /\ (q + 1) * d \in Int /\ (w + 1) * d \in Int
    <3> HIDE DEF d, q, w
    <3> QED
      BY <1>3, <2>1, TimesMonotone
  <2>6. cap >= Minute
    BY <1>8, <1>9
  <2> HIDE DEF cap, b, u, w, d, q, e, r
  <2>7. b + e * r >= Minute
    BY <1>1, <1>4, <1>6, <2>4, <2>5
  <2> QED
    BY <1>1, <1>2, <1>6, <2>6, <2>7 DEF SmallerOf
<1>10. ASSUME w > 1, clock < u + w * Second
       PROVE  Refilled(t).tokens < Minute
  <2>1. w = q
    BY <1>1, <1>4, <1>5, <1>10 DEF LargerOf
  <2>2. q * Second \in Int /\ (q * Second) * r = q * d
    BY <1>4, <1>7
  <2>3. e \in Int /\ q * Second - 1 \in Int /\ e <= q * Second - 1
    <3> HIDE DEF q
    <3> QED
      BY <1>1, <1>10, <2>1, <2>2
  <2>4. e * r <= (q * Second - 1) * r
    BY <1>1, <2>3, TimesMonotone
  <2>5. (q * Second - 1) * r = (q * Second) * r - r
    <3>1. ASSUME NEW x \in Int, NEW y \in Int PROVE (x - 1) * y = x * y - y
      OBVIOUS
    <3> QED
      BY <1>1, <2>2, <3>1
  <2>6. q * d \in Int
    BY <1>3, <1>4, TimesInt
  <2> HIDE DEF cap, b, u, w, d, q, e, r
  <2>7. b + e * r < Minute
    BY <1>1, <1>4, <1>6, <2>2, <2>4, <2>5, <2>6
  <2> QED
    BY <1>1, <1>2, <1>6, <2>7 DEF SmallerOf
<1> QED
  BY <1>9, <1>10

(***************************************************************************)
(* Retry-After is right to within a second, for every valid configuration  *)
(* and every behaviour of the clock: the client that waits one second more *)
(* than it was told is admitted, the client that comes back before a wait  *)
(* of more than the minimum is over is not (limiter.go retryAfterSeconds). *)
(***************************************************************************)
THEOREM RetryAfterTheorem == Spec => RetryAfterExact
<1>1. Init => Waiting
  BY DEF Init, Waiting
<1>2. Spec => []Waiting
  BY <1>1, WaitingStep, Account, PTL DEF Spec
<1>3. ASSUME IInv, Waiting, NEW t \in Tenant,
             AllowKnown(t), ~decision[t].allowed, Rate(t) > 0
      PROVE  /\ (/\ Capacity(t) > 0
                 /\ clock >= buckets[t].updated + (decision[t].retryAfter + 1) * Second)
                   => decision'[t].allowed
             /\ (/\ decision[t].retryAfter > 1
                 /\ clock < buckets[t].updated + decision[t].retryAfter * Second)
                   => ~decision'[t].allowed
  <2>1. Enabled(t) /\ decision \in [Tenant -> Decision]
    BY <1>3 DEF Waiting, IInv, TypeOK
  <2>2. Refilled(t).tokens \in Int /\ Minute \in Nat
    BY <1>3, RefillFacts, LimitFacts DEF IInv
  <2>3. AllowAdmit(t) \/ AllowReject(t)
    BY <1>3, <2>1 DEF AllowKnown, AllowUnlimited
  <2>4. Refilled(t).tokens >= Minute => decision'[t].allowed
    BY <2>1, <2>2, <2>3 DEF AllowAdmit, AllowReject
  <2>5. Refilled(t).tokens < Minute => ~decision'[t].allowed
    BY <2>1, <2>2, <2>3 DEF AllowAdmit, AllowReject
  <2> QED
    BY <1>3, <2>4, <2>5, WaitSufficesAndIsNeeded
<1>4. IInv /\ Waiting =>
        \A t \in Tenant :
          AllowKnown(t) /\ ~decision[t].allowed /\ Rate(t) > 0 =>
            /\ (/\ Capacity(t) > 0
                /\ clock >= buckets[t].updated + (decision[t].retryAfter + 1) * Second)
                  => decision'[t].allowed
            /\ (/\ decision[t].retryAfter > 1
                /\ clock < buckets[t].updated + decision[t].retryAfter * Second)
                  => ~decision'[t].allowed
  BY <1>3
<1> QED
  BY <1>2, <1>4, Account, PTL DEF RetryAfterExact
=============================================================================
