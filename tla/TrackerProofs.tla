--------------------------- MODULE TrackerProofs ---------------------------
(***************************************************************************)
(* Proofs about the cost tracker, for any number of callers and tenants,   *)
(* any budgets, prices and feeds.                                          *)
(***************************************************************************)
EXTENDS Tracker, FiniteSetTheorems, TLAPS

(***************************************************************************)
(* What each phase of a call has established: the figures come from the    *)
(* sets of the model, the charge is within MaxCost, the per-request check  *)
(* was passed, and without a refresh estimate and charge are both at the   *)
(* prices now in force.                                                    *)
(***************************************************************************)
CallOK(q) ==
  /\ call[q].phase # "idle" =>
       /\ call[q].model \in Model /\ call[q].prompt \in Tokens /\ call[q].max \in Tokens
       /\ q \notin repriced =>
            call[q].estimated = Price(prices, call[q].model, call[q].prompt, call[q].max)
  /\ call[q].phase \in {"admitted", "priced"} => ~OverPerRequest(q)
  /\ call[q].phase = "priced" =>
       /\ call[q].completion \in Completion /\ call[q].cost <= MaxCost
       /\ q \notin repriced =>
            call[q].cost = Price(prices, call[q].model, call[q].prompt, call[q].completion)

CallsOK == \A q \in Request : CallOK(q)

IInv == TypeOK /\ CallsOK /\ RoomForInflight /\ OverspendBounded /\ CacheNeverAhead

----------------------------------------------------------------------------
(***************************************************************************)
(* Products of naturals are monotone in one factor.                        *)
(***************************************************************************)
LEMMA TimesMonotone ==
  ASSUME NEW m \in Nat, NEW x \in Nat, NEW y \in Nat, x <= y
  PROVE  m * x \in Nat /\ m * y \in Nat /\ m * x <= m * y
OBVIOUS

(***************************************************************************)
(* Every table that can be in force prices every model (pricing.go Price). *)
(***************************************************************************)
LEMMA PriceFacts ==
  ASSUME NEW table \in PriceTables, NEW m \in Model, NEW p \in Nat, NEW c \in Nat
  PROVE  /\ PriceOf(table, m) \in ModelPrice
         /\ Price(table, m, p, c) \in Nat
<1>1. UnknownPrice \in ModelPrice
  BY PriceAssumption DEF UnknownPrice, ModelPrice
<1>2. \A k \in DOMAIN table : table[k] \in ModelPrice
  <2>1. CASE table = DefaultPrices
    BY <2>1, PriceAssumption
  <2>2. ASSUME NEW feed \in Feed, table = Overlay(feed)
        PROVE  \A k \in DOMAIN table : table[k] \in ModelPrice
    BY <2>2, PriceAssumption DEF Overlay
  <2> QED
    BY <2>1, <2>2 DEF PriceTables
<1>3. PriceOf(table, m) \in ModelPrice
  BY <1>1, <1>2 DEF PriceOf
<1>4. PriceOf(table, m).input \in Nat /\ PriceOf(table, m).output \in Nat
  BY <1>3 DEF ModelPrice
<1>5. ASSUME NEW i \in Nat, NEW o \in Nat PROVE p * i + c * o \in Nat
  <2>1. p * i \in Nat /\ c * o \in Nat
    BY TimesMonotone
  <2> QED
    BY <2>1
<1> QED
  BY <1>3, <1>4, <1>5 DEF Price

(***************************************************************************)
(* More completion tokens cost no less.                                    *)
(***************************************************************************)
LEMMA PriceMonotone ==
  ASSUME NEW table \in PriceTables, NEW m \in Model, NEW p \in Nat,
         NEW c \in Nat, NEW d \in Nat, c <= d
  PROVE  Price(table, m, p, c) <= Price(table, m, p, d)
<1>1. PriceOf(table, m).input \in Nat /\ PriceOf(table, m).output \in Nat
  BY PriceFacts DEF ModelPrice
<1>2. ASSUME NEW i \in Nat, NEW o \in Nat PROVE p * i + c * o <= p * i + d * o
  <2>1. p * i \in Nat /\ o * c <= o * d /\ o * c = c * o /\ o * d = d * o
    BY TimesMonotone
  <2>2. c * o \in Nat /\ d * o \in Nat
    BY TimesMonotone
  <2> QED
    BY <2>1, <2>2
<1> QED
  BY <1>1, <1>2 DEF Price

(***************************************************************************)
(* A valid configuration gives every tenant a budget (tenantBudgets).      *)
(***************************************************************************)
LEMMA BudgetFacts ==
  ASSUME NEW t \in Tenant
  PROVE  BudgetForTenant(t).daily \in Nat /\ BudgetForTenant(t).perReq \in Nat
BY BudgetAssumption DEF BudgetForTenant, Budget, Own

(***************************************************************************)
(* The callers in flight are finitely many: no more than all of them.      *)
(***************************************************************************)
LEMMA InflightFacts ==
  ASSUME NEW t \in Tenant
  PROVE  /\ IsFiniteSet(Inflight(t))
         /\ Cardinality(Inflight(t)) \in Nat
         /\ Cardinality(Request) \in Nat
         /\ Cardinality(Inflight(t)) <= Cardinality(Request)
<1>1. Inflight(t) \subseteq Request
  BY DEF Inflight
<1> QED
  BY <1>1, RequestAssumption, FS_Subset, FS_CardinalityType
(***************************************************************************)
(* The ceiling leaves one allowance beyond the budget, and an allowance    *)
(* covers the callers in flight.                                           *)
(***************************************************************************)
LEMMA CeilingFacts ==
  ASSUME TypeOK, NEW t \in Tenant
  PROVE  /\ Allowance \in Nat /\ Ceiling(t) \in Nat
         /\ BudgetForTenant(t).daily + Allowance <= Ceiling(t)
         /\ MaxCost * Cardinality(Inflight(t)) \in Nat
         /\ MaxCost * Cardinality(Inflight(t)) <= Allowance
<1>1. Allowance \in Nat /\ BudgetForTenant(t).daily \in Nat /\ setbacks \in Nat
  BY InflightFacts, BudgetFacts, CostAssumption, TimesMonotone DEF Allowance, TypeOK
<1>2. Allowance * (1 + setbacks) \in Nat /\ Allowance <= Allowance * (1 + setbacks)
  <2>1. 1 \in Nat /\ 1 + setbacks \in Nat /\ 1 <= 1 + setbacks /\ Allowance * 1 = Allowance
    BY <1>1
  <2> QED
    BY <1>1, <2>1, TimesMonotone
<1>3. /\ MaxCost * Cardinality(Inflight(t)) \in Nat
      /\ MaxCost * Cardinality(Inflight(t)) <= Allowance
  BY InflightFacts, CostAssumption, TimesMonotone DEF Allowance
<1> QED
  BY <1>1, <1>2, <1>3 DEF Ceiling

(***************************************************************************)
(* Only a setback of the clock moves the ceiling: up, by one allowance.    *)
(***************************************************************************)
LEMMA CeilingMoves ==
  ASSUME TypeOK, NEW t \in Tenant
  PROVE  /\ setbacks' = setbacks => Ceiling(t)' = Ceiling(t)
         /\ setbacks' = setbacks + 1 => Ceiling(t)' = Ceiling(t) + Allowance
<1>1. setbacks' = setbacks => Ceiling(t)' = Ceiling(t)
  BY DEF Ceiling
<1>2. ASSUME setbacks' = setbacks + 1 PROVE Ceiling(t)' = Ceiling(t) + Allowance
  <2>1. Allowance \in Nat /\ BudgetForTenant(t).daily \in Nat /\ setbacks \in Nat
    BY CeilingFacts, BudgetFacts DEF TypeOK
  <2>2. ASSUME NEW a \in Nat, NEW b \in Nat, NEW n \in Nat
        PROVE  b + a * (1 + (n + 1)) = (b + a * (1 + n)) + a
    OBVIOUS
  <2>3. Ceiling(t)' = BudgetForTenant(t).daily + Allowance * (1 + setbacks')
    BY DEF Ceiling
  <2> QED
    BY <1>2, <2>1, <2>2, <2>3 DEF Ceiling
<1> QED
  BY <1>1, <1>2

----------------------------------------------------------------------------
(***************************************************************************)
(* The steps that charge nothing: at most the map is brought up to date    *)
(* with the ledger, and nobody is admitted.                                *)
(***************************************************************************)
NothingSpent ==
  /\ today' = today /\ setbacks' = setbacks
  /\ ledger' = ledger
  /\ \/ spendByDay' = spendByDay
     \/ Persistent /\ \E t \in Tenant :
                         spendByDay' = [spendByDay EXCEPT ![t][today] = Spent(t, today)]

(***************************************************************************)
(* The spend of a day is a number, wherever it is looked up (spentForDay). *)
(***************************************************************************)
LEMMA SpentFacts ==
  ASSUME TypeOK, NEW t \in Tenant, NEW d \in Day
  PROVE  Spent(t, d) \in Nat /\ ledger[t][d] \in Nat /\ spendByDay[t][d] \in Nat
BY DEF TypeOK, Spent

(***************************************************************************)
(* A step that charges nothing leaves a well-typed map behind.             *)
(***************************************************************************)
LEMMA NothingSpentType ==
  ASSUME TypeOK, NothingSpent
  PROVE  spendByDay' \in [Tenant -> [Day -> Nat]]
<1>1. spendByDay \in [Tenant -> [Day -> Nat]] /\ today \in Day
  BY DEF TypeOK
<1>2. \A t \in Tenant : Spent(t, today) \in Nat
  BY <1>1, SpentFacts
<1> QED
  BY <1>1, <1>2 DEF NothingSpent

(***************************************************************************)
(* A step that charges nothing keeps what is known of each day's spend.    *)
(***************************************************************************)
LEMMA NothingSpentKeeps ==
  ASSUME IInv, NothingSpent
  PROVE  /\ \A t \in Tenant, d \in Day : Spent(t, d)' = Spent(t, d)
         /\ OverspendBounded' /\ CacheNeverAhead'
         /\ \A t \in Tenant, d \in Day :
              BudgetForTenant(t).daily > 0 /\ d > today'
                => Spent(t, d)' + Allowance <= Ceiling(t)'
<1>1. ASSUME NEW t \in Tenant, NEW d \in Day
      PROVE  /\ Spent(t, d)' = Spent(t, d)
             /\ Persistent => spendByDay'[t][d] <= ledger'[t][d]
  <2>1. /\ spendByDay \in [Tenant -> [Day -> Nat]] /\ today \in Day
        /\ ledger[t][d] \in Nat
        /\ Persistent => spendByDay[t][d] <= ledger[t][d]
    BY DEF IInv, TypeOK, CacheNeverAhead
  <2>2. CASE spendByDay' = spendByDay
    BY <2>1, <2>2 DEF NothingSpent, Spent
  <2>3. ASSUME NEW s \in Tenant, Persistent,
               spendByDay' = [spendByDay EXCEPT ![s][today] = Spent(s, today)]
        PROVE  /\ Spent(t, d)' = Spent(t, d)
               /\ spendByDay'[t][d] <= ledger'[t][d]
    <3>1. Spent(t, d)' = Spent(t, d)
      BY <2>3 DEF NothingSpent, Spent
    <3>2. CASE t = s /\ d = today
      <4>1. spendByDay'[t][d] = ledger[t][d]
        BY <2>1, <2>3, <3>2 DEF Spent
      <4> QED
        BY <2>1, <3>1, <4>1 DEF NothingSpent
    <3>3. CASE ~(t = s /\ d = today)
      <4>1. spendByDay'[t][d] = spendByDay[t][d]
        BY <2>1, <2>3, <3>3
      <4> QED
        BY <2>1, <2>3, <3>1, <4>1 DEF NothingSpent
    <3> QED
      BY <3>2, <3>3
  <2> QED
    BY <2>2, <2>3 DEF NothingSpent
<1>2. \A t \in Tenant : Ceiling(t)' = Ceiling(t)
  BY CeilingMoves DEF NothingSpent, IInv
<1>3. OverspendBounded' /\ CacheNeverAhead'
  BY <1>1, <1>2 DEF IInv, OverspendBounded, CacheNeverAhead
<1>4. \A t \in Tenant, d \in Day :
        BudgetForTenant(t).daily > 0 /\ d > today'
          => Spent(t, d)' + Allowance <= Ceiling(t)'
  BY <1>1, <1>2 DEF IInv, RoomForInflight, NothingSpent
<1> QED
  BY <1>1, <1>3, <1>4

(***************************************************************************)
(* If it admits nobody either, the room for those in flight is still there.*)
(***************************************************************************)
LEMMA NothingSpentStep ==
  ASSUME IInv, NothingSpent, \A t \in Tenant : Inflight(t)' \subseteq Inflight(t)
  PROVE  RoomForInflight' /\ OverspendBounded' /\ CacheNeverAhead'
<1>1. ASSUME NEW t \in Tenant, BudgetForTenant(t).daily > 0
      PROVE  Spent(t, today)' + MaxCost * Cardinality(Inflight(t)') <= Ceiling(t)'
  <2>1. today \in Day /\ today' = today
    BY DEF IInv, TypeOK, NothingSpent
  <2>2. Spent(t, today)' = Spent(t, today) /\ Spent(t, today) \in Nat
    BY <2>1, NothingSpentKeeps, SpentFacts DEF IInv, Spent
  <2>3. /\ Cardinality(Inflight(t)') <= Cardinality(Inflight(t))
        /\ Cardinality(Inflight(t)') \in Nat /\ Cardinality(Inflight(t)) \in Nat
    BY InflightFacts, FS_Subset, FS_CardinalityType
  <2>4. /\ MaxCost * Cardinality(Inflight(t)') <= MaxCost * Cardinality(Inflight(t))
        /\ MaxCost * Cardinality(Inflight(t)') \in Nat
        /\ MaxCost * Cardinality(Inflight(t)) \in Nat
    BY <2>3, CostAssumption, TimesMonotone
  <2>5. Ceiling(t)' = Ceiling(t) /\ Ceiling(t) \in Nat
    BY CeilingMoves, CeilingFacts DEF IInv, NothingSpent
  <2>6. Spent(t, today) + MaxCost * Cardinality(Inflight(t)) <= Ceiling(t)
    BY <1>1 DEF IInv, RoomForInflight
  <2> QED
    BY <2>2, <2>4, <2>5, <2>6
<1> QED
  BY <1>1, NothingSpentKeeps DEF RoomForInflight, Spent

(***************************************************************************)
(* Looking up today's spend (spentForDay) charges nothing.                 *)
(***************************************************************************)
LEMMA LookupSpendsNothing ==
  ASSUME NEW t \in Tenant, CacheSpend(t, Spent(t, today)), UNCHANGED <<ledger, clock>>
  PROVE  NothingSpent
BY DEF CacheSpend, NothingSpent, clock

----------------------------------------------------------------------------
(***************************************************************************)
(* A caller is not affected by the steps of another.                       *)
(***************************************************************************)
OnlyCaller(q) ==
  /\ prices' = prices
  /\ \A r \in Request \ {q} : call'[r] = call[r] /\ (r \in repriced' <=> r \in repriced)

(***************************************************************************)
(* What the other callers have established survives such a step.           *)
(***************************************************************************)
LEMMA OthersOK ==
  ASSUME CallsOK, NEW q \in Request, OnlyCaller(q), CallOK(q)'
  PROVE  CallsOK'
<1>1. ASSUME NEW r \in Request \ {q}
      PROVE  CallOK(r)'
  <2>1. call'[r] = call[r] /\ prices' = prices /\ (r \in repriced' <=> r \in repriced)
    BY DEF OnlyCaller
  <2>2. CallOK(r)
    BY DEF CallsOK
  <2> QED
    BY <2>1, <2>2 DEF CallOK, OverPerRequest
<1> QED
  BY <1>1 DEF CallsOK

(***************************************************************************)
(* A caller that leaves establishes nothing and owes nothing.              *)
(***************************************************************************)
LEMMA LeaveOK ==
  ASSUME IInv, NEW q \in Request, Leave(q), UNCHANGED <<prices, repriced>>
  PROVE  /\ CallsOK' /\ call' \in [Request -> Call]
         /\ \A t \in Tenant : Inflight(t)' = Inflight(t) \ {q}
<1>1. Idle \in Call
  BY BudgetAssumption DEF Idle, Call, Phase
<1>2. /\ call' \in [Request -> Call] /\ call'[q] = Idle
      /\ \A r \in Request \ {q} : call'[r] = call[r]
  BY <1>1 DEF Leave, IInv, TypeOK
<1>3. call'[q].phase = "idle"
  <2>1. Idle.phase = "idle"
    BY DEF Idle
  <2> QED
    BY <1>2, <2>1
<1>4. CallOK(q)'
  BY <1>3 DEF CallOK
<1>5. OnlyCaller(q)
  BY <1>2 DEF OnlyCaller
<1>6. \A t \in Tenant : Inflight(t)' = Inflight(t) \ {q}
  BY <1>2, <1>3 DEF Inflight
<1> QED
  BY <1>2, <1>4, <1>5, <1>6, OthersOK DEF IInv

(***************************************************************************)
(* AllowTenant up to the lock.                                             *)
(***************************************************************************)
LEMMA EstimateStep ==
  ASSUME IInv, NEW q \in Request, NEW id \in Tenant \cup {NoTenant},
         NEW m \in Model, NEW p \in Tokens, NEW c \in Tokens,
         Estimate(q, id, m, p, c)
  PROVE  IInv'
<1> DEFINE new == [Idle EXCEPT !.phase = "estimated", !.tenant = TenantOrDefault(id),
                               !.model = m, !.prompt = p, !.max = c,
                               !.estimated = Price(prices, m, p, c)]
<1>1. /\ call[q].phase = "idle"
      /\ call' = [call EXCEPT ![q] = new]
      /\ repriced' = repriced \ {q}
      /\ UNCHANGED <<prices, ledger, spendByDay, today, setbacks>>
  BY DEF Estimate, costVars, clock
<1>2. new \in Call
  <2>1. Price(prices, m, p, c) \in Nat
    BY PriceFacts, RequestAssumption DEF IInv, TypeOK
  <2>2. TenantOrDefault(id) \in Tenant
    BY BudgetAssumption DEF TenantOrDefault
  <2> QED
    BY <2>1, <2>2, RequestAssumption DEF Idle, Call, Phase
<1>3. /\ call' \in [Request -> Call] /\ call'[q] = new
      /\ \A r \in Request \ {q} : call'[r] = call[r]
  BY <1>1, <1>2 DEF IInv, TypeOK
<1>4. TypeOK'
  BY <1>1, <1>3 DEF IInv, TypeOK
<1>5. new.phase = "estimated" /\ new.model = m /\ new.prompt = p /\ new.max = c
      /\ new.estimated = Price(prices, m, p, c)
  BY DEF Idle
<1> HIDE DEF new
<1>6. CallOK(q)'
  BY <1>1, <1>3, <1>5 DEF CallOK
<1>7. CallsOK'
  <2>1. OnlyCaller(q)
    BY <1>1, <1>3 DEF OnlyCaller
  <2> QED
    BY <1>6, <2>1, OthersOK DEF IInv
<1>8. \A t \in Tenant : Inflight(t)' \subseteq Inflight(t)
  BY <1>3, <1>5 DEF Inflight
<1>9. NothingSpent
  BY <1>1 DEF NothingSpent
<1> QED
  BY <1>4, <1>7, <1>8, <1>9, NothingSpentStep DEF IInv

(***************************************************************************)
(* AllowTenant without an admission, RecordTenant without a charge.        *)
(***************************************************************************)
LEMMA UnchargedStep ==
  ASSUME IInv, NEW q \in Request,
         AllowError(q) \/ AllowReject(q) \/ Abandon(q) \/ RecordFails(q)
  PROVE  IInv'
<1>1. Leave(q) /\ UNCHANGED <<prices, repriced, ledger, today, setbacks>>
  BY DEF AllowError, AllowReject, Abandon, RecordFails, costVars, clock
<1>2. /\ CallsOK' /\ call' \in [Request -> Call]
      /\ \A t \in Tenant : Inflight(t)' \subseteq Inflight(t)
  BY <1>1, LeaveOK
<1>3. call[q].tenant \in Tenant /\ today \in Day
  BY DEF IInv, TypeOK, Call
<1>4. NothingSpent
  <2>1. CASE AllowReject(q)
    BY <1>3, <2>1, LookupSpendsNothing DEF AllowReject
  <2>2. CASE ~AllowReject(q)
    BY <2>2 DEF AllowError, Abandon, RecordFails, costVars, clock, NothingSpent
  <2> QED
    BY <2>1, <2>2
<1>5. spendByDay' \in [Tenant -> [Day -> Nat]]
  BY <1>4, NothingSpentType DEF IInv
<1>6. TypeOK'
  BY <1>1, <1>2, <1>5 DEF IInv, TypeOK
<1> QED
  BY <1>2, <1>4, <1>6, NothingSpentStep DEF IInv

(***************************************************************************)
(* An admission: the budget had room for the estimate, and there are no    *)
(* more callers in flight than there are callers.                          *)
(***************************************************************************)
LEMMA AdmitStep ==
  ASSUME IInv, NEW q \in Request, AllowAdmit(q)
  PROVE  IInv'
<1> DEFINE t == call[q].tenant
<1>1. /\ call[q].phase = "estimated" /\ ~OverPerRequest(q) /\ ~OverDaily(q)
      /\ CacheSpend(t, Spent(t, today))
      /\ call' = [call EXCEPT ![q].phase = "admitted"]
      /\ UNCHANGED <<prices, ledger, clock, repriced>>
  BY DEF AllowAdmit
<1>2. call[q] \in Call /\ t \in Tenant /\ today \in Day /\ call[q].estimated \in Nat
  BY DEF IInv, TypeOK, Call
<1>3. /\ call' \in [Request -> Call]
      /\ call'[q] = [call[q] EXCEPT !.phase = "admitted"]
      /\ \A r \in Request \ {q} : call'[r] = call[r]
  BY <1>1, <1>2 DEF IInv, TypeOK, Call, Phase
<1>4. /\ call'[q].phase = "admitted" /\ call'[q].tenant = t
      /\ call'[q].model = call[q].model /\ call'[q].prompt = call[q].prompt
      /\ call'[q].max = call[q].max /\ call'[q].estimated = call[q].estimated
  BY <1>2, <1>3 DEF Call
<1>5. CallsOK'
  <2>1. CallOK(q)
    BY DEF IInv, CallsOK
  <2>2. CallOK(q)'
    BY <1>1, <1>4, <2>1 DEF CallOK, OverPerRequest
  <2>3. OnlyCaller(q)
    BY <1>1, <1>3 DEF OnlyCaller
  <2> QED
    BY <2>2, <2>3, OthersOK DEF IInv
<1>6. NothingSpent
  BY <1>1, <1>2, LookupSpendsNothing
<1>7. TypeOK'
  BY <1>1, <1>3, <1>6, NothingSpentType DEF IInv, TypeOK, NothingSpent
<1>8. today' = today /\ setbacks' = setbacks
  BY <1>6 DEF NothingSpent
<1>9. ASSUME NEW s \in Tenant, BudgetForTenant(s).daily > 0
      PROVE  Spent(s, today)' + MaxCost * Cardinality(Inflight(s)') <= Ceiling(s)'
  <2>1. /\ Spent(s, today)' = Spent(s, today) /\ Spent(s, today) \in Nat
        /\ BudgetForTenant(s).daily \in Nat
        /\ Ceiling(s)' = Ceiling(s) /\ Ceiling(s) \in Nat /\ Allowance \in Nat
        /\ BudgetForTenant(s).daily + Allowance <= Ceiling(s)
    BY <1>2, <1>6, <1>8, NothingSpentKeeps, SpentFacts, BudgetFacts, CeilingMoves,
       CeilingFacts DEF IInv, Spent
  <2>2. CASE s = t
    <3>1. Spent(s, today) <= BudgetForTenant(s).daily
      BY <1>1, <1>2, <1>9, <2>1, <2>2 DEF OverDaily
    <3>2. Inflight(s)' \subseteq Request
      BY DEF Inflight
    <3>3. /\ Cardinality(Inflight(s)') <= Cardinality(Request)
          /\ Cardinality(Inflight(s)') \in Nat /\ Cardinality(Request) \in Nat
      BY <3>2, RequestAssumption, FS_Subset, FS_CardinalityType
    <3>4. /\ MaxCost * Cardinality(Inflight(s)') <= Allowance
          /\ MaxCost * Cardinality(Inflight(s)') \in Nat
      BY <3>3, CostAssumption, TimesMonotone DEF Allowance
    <3> QED
      BY <2>1, <3>1, <3>4
  <2>3. CASE s # t
    <3>1. \A p \in Request : p \in Inflight(s)' <=> p \in Inflight(s)
      <4> SUFFICES ASSUME NEW p \in Request
                   PROVE  p \in Inflight(s)' <=> p \in Inflight(s)
        OBVIOUS
      <4>1. CASE p = q
        BY <1>3, <1>4, <2>3, <4>1 DEF Inflight
      <4>2. CASE p # q
        BY <1>3, <1>4, <4>2 DEF Inflight
      <4> QED
        BY <4>1, <4>2
    <3>2. Inflight(s)' = Inflight(s)
      <4>1. Inflight(s)' \subseteq Request /\ Inflight(s) \subseteq Request
        BY Zenon DEF Inflight
      <4> QED
        BY <3>1, <4>1, Zenon
    <3> QED
      BY <1>9, <2>1, <3>2 DEF IInv, RoomForInflight
  <2> QED
    BY <2>2, <2>3
<1>10. RoomForInflight'
  BY <1>6, <1>8, <1>9, NothingSpentKeeps DEF RoomForInflight, Spent
<1> QED
  BY <1>5, <1>6, <1>7, <1>10, NothingSpentKeeps DEF IInv

(***************************************************************************)
(* RecordTenant up to the lock.                                            *)
(***************************************************************************)
LEMMA PriceUsageStep ==
  ASSUME IInv, NEW q \in Request, NEW c \in Completion, PriceUsage(q, c)
  PROVE  IInv'
<1> DEFINE cost == Price(prices, call[q].model, call[q].prompt, c)
<1>1. /\ call[q].phase = "admitted"
      /\ call' = [call EXCEPT ![q].phase = "priced", ![q].completion = c, ![q].cost = cost]
      /\ UNCHANGED <<prices, ledger, spendByDay, today, setbacks, repriced>>
  BY DEF PriceUsage, costVars, clock
<1>2. call[q] \in Call /\ CallOK(q) /\ prices \in PriceTables
  BY DEF IInv, TypeOK, CallsOK
<1>3. call[q].model \in Model /\ call[q].prompt \in Tokens
  BY <1>1, <1>2 DEF CallOK
<1>4. cost \in Nat /\ cost <= MaxCost /\ c \in Nat
  BY <1>2, <1>3, PriceFacts, CostAssumption, RequestAssumption
<1> HIDE DEF cost
<1>5. /\ call' \in [Request -> Call]
      /\ call'[q] = [call[q] EXCEPT !.phase = "priced", !.completion = c, !.cost = cost]
      /\ \A r \in Request \ {q} : call'[r] = call[r]
  BY <1>1, <1>2, <1>4 DEF IInv, TypeOK, Call, Phase
<1>6. /\ call'[q].phase = "priced" /\ call'[q].tenant = call[q].tenant
      /\ call'[q].model = call[q].model /\ call'[q].prompt = call[q].prompt
      /\ call'[q].max = call[q].max /\ call'[q].estimated = call[q].estimated
      /\ call'[q].completion = c /\ call'[q].cost = cost
  BY <1>2, <1>5 DEF Call
<1>7. CallsOK'
  <2>1. CallOK(q)'
    BY <1>1, <1>2, <1>4, <1>6 DEF CallOK, OverPerRequest, cost
  <2>2. OnlyCaller(q)
    BY <1>1, <1>5 DEF OnlyCaller
  <2> QED
    BY <2>1, <2>2, OthersOK DEF IInv
<1>8. \A t \in Tenant : Inflight(t)' \subseteq Inflight(t)
  BY <1>1, <1>5, <1>6 DEF Inflight
<1>9. NothingSpent
  BY <1>1 DEF NothingSpent
<1>10. TypeOK'
  BY <1>1, <1>5 DEF IInv, TypeOK
<1> QED
  BY <1>7, <1>8, <1>9, <1>10, NothingSpentStep DEF IInv

(***************************************************************************)
(* A charge: the spend grows by at most MaxCost, and one caller less is in *)
(* flight.                                                                 *)
(***************************************************************************)
LEMMA ChargeStep ==
  ASSUME IInv, NEW q \in Request, Record(q) \/ RecordUnread(q)
  PROVE  IInv'
<1>0. PICK t \in Tenant, cost \in Nat : t = call[q].tenant /\ cost = call[q].cost
  BY DEF IInv, TypeOK, Call
<1>1. /\ call[q].phase = "priced" /\ Leave(q)
      /\ UNCHANGED <<prices, today, setbacks, repriced>>
  BY DEF Record, RecordUnread, clock
<1>2. /\ today \in Day /\ cost <= MaxCost
      /\ ledger \in [Tenant -> [Day -> Nat]] /\ spendByDay \in [Tenant -> [Day -> Nat]]
      /\ ledger[t][today] \in Nat /\ spendByDay[t][today] \in Nat
  BY <1>0, <1>1 DEF IInv, TypeOK, CallsOK, CallOK
<1>3. /\ CallsOK' /\ call' \in [Request -> Call]
      /\ \A s \in Tenant : Inflight(s)' = Inflight(s) \ {q}
  BY <1>1, LeaveOK
<1>4. /\ ledger' \in [Tenant -> [Day -> Nat]] /\ spendByDay' \in [Tenant -> [Day -> Nat]]
      /\ Spent(t, today)' = Spent(t, today) + cost
      /\ \A s \in Tenant, d \in Day :
           (s # t \/ d # today) => /\ ledger'[s][d] = ledger[s][d]
                                   /\ spendByDay'[s][d] = spendByDay[s][d]
  <2>1. ASSUME NEW f \in [Tenant -> [Day -> Nat]], NEW n \in Nat
        PROVE  /\ [f EXCEPT ![t][today] = n] \in [Tenant -> [Day -> Nat]]
               /\ [f EXCEPT ![t][today] = n][t][today] = n
               /\ \A s \in Tenant, d \in Day :
                    (s # t \/ d # today) => [f EXCEPT ![t][today] = n][s][d] = f[s][d]
    BY <1>2
  <2>2. \A f \in [Tenant -> [Day -> Nat]] :
          AddSpend(f, q) = [f EXCEPT ![t][today] = f[t][today] + cost]
    BY <1>0, <1>2 DEF AddSpend
  <2>3. ledger[t][today] + cost \in Nat /\ spendByDay[t][today] + cost \in Nat
    BY <1>2
  <2>4. CASE Persistent
    <3>1. ledger' = [ledger EXCEPT ![t][today] = ledger[t][today] + cost]
      BY <1>2, <2>2, <2>4 DEF Record, RecordUnread
    <3>2. \/ spendByDay' = spendByDay
          \/ spendByDay' = [spendByDay EXCEPT ![t][today] = ledger'[t][today]]
      BY <1>0, <2>4 DEF Record, RecordUnread
    <3>3. /\ ledger' \in [Tenant -> [Day -> Nat]]
          /\ ledger'[t][today] = ledger[t][today] + cost
          /\ \A s \in Tenant, d \in Day :
               (s # t \/ d # today) => ledger'[s][d] = ledger[s][d]
      BY <1>2, <2>1, <2>3, <3>1
    <3>4. /\ spendByDay' \in [Tenant -> [Day -> Nat]]
          /\ \A s \in Tenant, d \in Day :
               (s # t \/ d # today) => spendByDay'[s][d] = spendByDay[s][d]
      <4>1. ledger'[t][today] \in Nat
        BY <2>3, <3>3
      <4>2. CASE spendByDay' = spendByDay
        BY <1>2, <4>2
      <4>3. ASSUME NEW n \in Nat, spendByDay' = [spendByDay EXCEPT ![t][today] = n]
            PROVE  /\ spendByDay' \in [Tenant -> [Day -> Nat]]
                   /\ \A s \in Tenant, d \in Day :
                        (s # t \/ d # today) => spendByDay'[s][d] = spendByDay[s][d]
        BY <1>2, <2>1, <4>3
      <4> QED
        BY <3>2, <4>1, <4>2, <4>3
    <3>5. Spent(t, today)' = Spent(t, today) + cost
      BY <1>1, <2>4, <3>3 DEF Spent
    <3> QED
      BY <3>3, <3>4, <3>5
  <2>5. CASE ~Persistent
    <3>1. /\ spendByDay' = [spendByDay EXCEPT ![t][today] = spendByDay[t][today] + cost]
          /\ ledger' = ledger
      BY <1>2, <2>2, <2>5 DEF Record, RecordUnread
    <3>2. /\ spendByDay' \in [Tenant -> [Day -> Nat]]
          /\ spendByDay'[t][today] = spendByDay[t][today] + cost
          /\ \A s \in Tenant, d \in Day :
               (s # t \/ d # today) => spendByDay'[s][d] = spendByDay[s][d]
      BY <1>2, <2>1, <2>3, <3>1
    <3>3. Spent(t, today)' = Spent(t, today) + cost
      BY <1>1, <2>5, <3>2 DEF Spent
    <3> QED
      BY <1>2, <3>1, <3>2, <3>3
  <2> QED
    BY <2>4, <2>5
<1>5. TypeOK'
  BY <1>1, <1>3, <1>4 DEF IInv, TypeOK
<1>6. ASSUME NEW s \in Tenant, NEW d \in Day, s # t \/ d # today
      PROVE  Spent(s, d)' = Spent(s, d)
  BY <1>4, <1>6 DEF Spent
<1>7. today' = today
  BY <1>1
<1>8. ASSUME NEW s \in Tenant, BudgetForTenant(s).daily > 0
      PROVE  /\ Spent(s, today)' + MaxCost * Cardinality(Inflight(s)') <= Ceiling(s)
             /\ Spent(s, today)' <= Ceiling(s)
  <2> DEFINE k == Cardinality(Inflight(s))
             room == Ceiling(s)
  <2>1. /\ k \in Nat /\ MaxCost \in Nat /\ MaxCost * k \in Nat /\ room \in Nat
        /\ Spent(s, today) \in Nat /\ IsFiniteSet(Inflight(s))
    BY <1>2, InflightFacts, CeilingFacts, CostAssumption, SpentFacts DEF IInv
  <2>2. Spent(s, today) + MaxCost * k <= room
    BY <1>8 DEF IInv, RoomForInflight
  <2>3. CASE s = t
    <3>1. q \in Inflight(s)
      BY <1>0, <1>1, <2>3 DEF Inflight
    <3>2. Cardinality(Inflight(s)') = k - 1
      BY <1>3, <2>1, <3>1, FS_RemoveElement
    <3>3. k - 1 \in Nat
      <4>1. k # 0
        BY <2>1, <3>1, FS_EmptySet
      <4> QED
        BY <2>1, <4>1
    <3> HIDE DEF k
    <3>4. /\ MaxCost * (k - 1) = MaxCost * k - MaxCost
          /\ MaxCost * (k - 1) \in Nat
      BY <2>1, <3>3, TimesMonotone
    <3>5. Spent(s, today)' = Spent(s, today) + cost
      BY <1>4, <2>3
    <3> HIDE DEF room
    <3>6. /\ Spent(s, today)' + MaxCost * (k - 1) <= room
          /\ Spent(s, today)' <= room
      <4>1. ASSUME NEW sp \in Nat, NEW mk \in Nat, NEW r \in Nat,
                   sp + mk <= r, mk - MaxCost \in Nat
            PROVE  sp + cost + (mk - MaxCost) <= r /\ sp + cost <= r
        BY <1>2, <2>1, <4>1
      <4> QED
        BY <2>1, <2>2, <3>4, <3>5, <4>1
    <3> QED
      BY <3>2, <3>6 DEF room
  <2>4. CASE s # t
    <3>1. Inflight(s)' = Inflight(s)
      BY <1>0, <1>3, <2>4 DEF Inflight
    <3>2. Spent(s, today)' = Spent(s, today)
      BY <1>2, <1>4, <1>7, <2>4 DEF Spent
    <3> HIDE DEF room, k
    <3>3. Spent(s, today) <= room
      BY <2>1, <2>2
    <3> QED
      BY <2>2, <3>1, <3>2, <3>3 DEF room, k
  <2> QED
    BY <2>3, <2>4
<1>9. \A s \in Tenant : Ceiling(s)' = Ceiling(s)
  BY <1>1, CeilingMoves DEF IInv
<1>10. RoomForInflight'
  <2>1. ASSUME NEW s \in Tenant, NEW d \in Day, BudgetForTenant(s).daily > 0, d > today
        PROVE  Spent(s, d)' + Allowance <= Ceiling(s)
    <3>1. d # today
      BY <1>2, <2>1, RequestAssumption DEF Day
    <3> QED
      BY <1>6, <2>1, <3>1 DEF IInv, RoomForInflight
  <2> QED
    BY <1>7, <1>8, <1>9, <2>1 DEF RoomForInflight, Spent
<1>11. OverspendBounded'
  <2> SUFFICES ASSUME NEW s \in Tenant, NEW d \in Day, BudgetForTenant(s).daily > 0
               PROVE  Spent(s, d)' <= Ceiling(s)
    BY <1>9 DEF OverspendBounded
  <2>1. CASE d = today
    BY <1>7, <1>8, <2>1 DEF Spent
  <2>2. CASE d # today
    BY <1>6, <2>2 DEF IInv, OverspendBounded
  <2> QED
    BY <2>1, <2>2
<1>12. CacheNeverAhead'
  <2> SUFFICES ASSUME Persistent, NEW s \in Tenant, NEW d \in Day
               PROVE  spendByDay'[s][d] <= ledger'[s][d]
    BY DEF CacheNeverAhead
  <2>1. spendByDay[s][d] <= ledger[s][d]
    BY DEF IInv, CacheNeverAhead
  <2>2. CASE s # t \/ d # today
    BY <1>4, <2>1, <2>2
  <2>3. CASE s = t /\ d = today
    <3>1. ledger'[t][today] = ledger[t][today] + cost
      BY <1>1, <1>4 DEF Spent
    <3>2. spendByDay'[t][today] \in {spendByDay[t][today], ledger'[t][today]}
      <4>1. \/ spendByDay' = spendByDay
            \/ spendByDay' = [spendByDay EXCEPT ![t][today] = ledger'[t][today]]
        BY <1>0 DEF Record, RecordUnread
      <4> QED
        BY <1>2, <4>1
    <3> QED
      BY <1>2, <2>1, <2>3, <3>1, <3>2
  <2> QED
    BY <2>2, <2>3
<1> QED
  BY <1>3, <1>5, <1>10, <1>11, <1>12 DEF IInv

(***************************************************************************)
(* The steps of the process and of the world.                              *)
(***************************************************************************)
LEMMA WorldStep ==
  ASSUME IInv,
         \/ \E id \in Tenant \cup {NoTenant} : Snapshot(id)
         \/ \E feed \in Feed : RefreshPrices(feed)
         \/ UNCHANGED vars
  PROVE  IInv'
<1>1. ASSUME NothingSpent, UNCHANGED <<prices, call, repriced>>
      PROVE  IInv'
  <2>1. TypeOK'
    BY <1>1, NothingSpentType DEF IInv, TypeOK, NothingSpent
  <2>2. CallsOK'
    BY <1>1 DEF IInv, CallsOK, CallOK, OverPerRequest
  <2>3. \A t \in Tenant : Inflight(t)' \subseteq Inflight(t)
    BY <1>1 DEF Inflight
  <2> QED
    BY <1>1, <2>1, <2>2, <2>3, NothingSpentStep DEF IInv
<1>2. ASSUME NEW id \in Tenant \cup {NoTenant}, Snapshot(id)
      PROVE  IInv'
  <2>1. TenantOrDefault(id) \in Tenant
    BY BudgetAssumption DEF TenantOrDefault
  <2>2. NothingSpent
    BY <1>2, <2>1, LookupSpendsNothing DEF Snapshot
  <2> QED
    BY <1>1, <1>2, <2>2 DEF Snapshot
<1>3. ASSUME NEW feed \in Feed, RefreshPrices(feed)
      PROVE  IInv'
  <2>1. /\ prices' \in PriceTables
        /\ UNCHANGED <<call, ledger, spendByDay, today, setbacks>>
        /\ repriced' = IF prices' = prices THEN repriced ELSE Request
    BY <1>3 DEF RefreshPrices, Refresh, PriceTables, costVars, clock
  <2>2. NothingSpent
    BY <2>1 DEF NothingSpent
  <2>3. TypeOK'
    BY <2>1 DEF IInv, TypeOK
  <2>4. CallsOK'
    <3>1. CASE prices' = prices
      BY <2>1, <3>1 DEF IInv, CallsOK, CallOK, OverPerRequest
    <3>2. CASE prices' # prices
      BY <2>1, <3>2 DEF IInv, CallsOK, CallOK, OverPerRequest
    <3> QED
      BY <3>1, <3>2
  <2>5. \A t \in Tenant : Inflight(t)' \subseteq Inflight(t)
    BY <2>1 DEF Inflight
  <2> QED
    BY <2>2, <2>3, <2>4, <2>5, NothingSpentStep DEF IInv
<1>4. CASE UNCHANGED vars
  BY <1>1, <1>4 DEF vars, NothingSpent
<1> QED
  BY <1>2, <1>3, <1>4

(***************************************************************************)
(* Midnight: a day to come has room for everybody who is in flight.        *)
(***************************************************************************)
LEMMA NextDayStep ==
  ASSUME IInv, NextDay
  PROVE  IInv'
<1>1. /\ today' = today + 1 /\ today \in Day /\ today' \in Day
      /\ UNCHANGED <<prices, ledger, spendByDay, setbacks, call, repriced>>
  BY RequestAssumption DEF NextDay, IInv, TypeOK, Day
<1>2. TypeOK'
  BY <1>1 DEF IInv, TypeOK
<1>3. CallsOK'
  BY <1>1 DEF IInv, CallsOK, CallOK, OverPerRequest
<1>4. /\ \A t \in Tenant : Ceiling(t)' = Ceiling(t)
      /\ \A t \in Tenant, d \in Day : Spent(t, d)' = Spent(t, d)
  BY <1>1, CeilingMoves DEF IInv, Spent
<1>5. OverspendBounded' /\ CacheNeverAhead'
  BY <1>1, <1>4 DEF IInv, OverspendBounded, CacheNeverAhead
<1>6. RoomForInflight'
  <2> SUFFICES ASSUME NEW t \in Tenant, BudgetForTenant(t).daily > 0
               PROVE  /\ Spent(t, today)' + MaxCost * Cardinality(Inflight(t)') <= Ceiling(t)'
                      /\ \A d \in Day : d > today' => Spent(t, d)' + Allowance <= Ceiling(t)'
    BY DEF RoomForInflight
  <2>1. \A d \in Day : d > today => Spent(t, d) + Allowance <= Ceiling(t)
    BY DEF IInv, RoomForInflight
  <2>2. today' > today /\ \A d \in Day : d > today' => d > today
    BY <1>1, RequestAssumption DEF Day
  <2>3. PICK sp \in Nat : sp = Spent(t, today)' /\ sp + Allowance <= Ceiling(t)
    <3>1. Spent(t, today)' = Spent(t, today')
      BY <1>1 DEF Spent
    <3> QED
      BY <1>1, <2>1, <2>2, <3>1, SpentFacts DEF IInv
  <2>4. Inflight(t)' = Inflight(t)
    BY <1>1 DEF Inflight
  <2>5. Spent(t, today)' + MaxCost * Cardinality(Inflight(t)') <= Ceiling(t)'
    BY <1>4, <2>3, <2>4, CeilingFacts DEF IInv
  <2> QED
    BY <1>4, <2>1, <2>2, <2>5
<1> QED
  BY <1>2, <1>3, <1>5, <1>6 DEF IInv

(***************************************************************************)
(* A setback: the day before may have been spent to its ceiling, with the  *)
(* callers in flight still to come, and one allowance more covers them.    *)
(***************************************************************************)
LEMMA ClockBackStep ==
  ASSUME IInv, ClockBack
  PROVE  IInv'
<1>1. /\ today' \in Day /\ setbacks' = setbacks + 1
      /\ UNCHANGED <<prices, ledger, spendByDay, call, repriced>>
  BY RequestAssumption DEF ClockBack, IInv, TypeOK, Day
<1>2. TypeOK'
  BY <1>1 DEF IInv, TypeOK
<1>3. CallsOK'
  BY <1>1 DEF IInv, CallsOK, CallOK, OverPerRequest
<1>4. ASSUME NEW t \in Tenant, NEW d \in Day
      PROVE  Spent(t, d)' = Spent(t, d) /\ Spent(t, d) \in Nat
  BY <1>1, SpentFacts DEF IInv, Spent
<1>5. ASSUME NEW t \in Tenant, BudgetForTenant(t).daily > 0
      PROVE  /\ Ceiling(t)' = Ceiling(t) + Allowance
             /\ Ceiling(t) \in Nat /\ Allowance \in Nat
             /\ \A d \in Day : Spent(t, d) <= Ceiling(t)
  BY <1>1, <1>5, CeilingMoves, CeilingFacts DEF IInv, OverspendBounded
<1>6. OverspendBounded' /\ CacheNeverAhead'
  <2>1. CacheNeverAhead'
    BY <1>1 DEF IInv, CacheNeverAhead
  <2>2. ASSUME NEW t \in Tenant, NEW d \in Day, BudgetForTenant(t).daily > 0
        PROVE  Spent(t, d)' <= Ceiling(t)'
    BY <1>4, <1>5, <2>2
  <2> QED
    BY <2>1, <2>2 DEF OverspendBounded
<1>7. RoomForInflight'
  <2> SUFFICES ASSUME NEW t \in Tenant, BudgetForTenant(t).daily > 0
               PROVE  /\ Spent(t, today)' + MaxCost * Cardinality(Inflight(t)') <= Ceiling(t)'
                      /\ \A d \in Day : Spent(t, d)' + Allowance <= Ceiling(t)'
    BY DEF RoomForInflight
  <2>1. PICK sp \in Nat : sp = Spent(t, today)' /\ sp <= Ceiling(t)
    <3>1. Spent(t, today)' = Spent(t, today')
      BY <1>1 DEF Spent
    <3> QED
      BY <1>1, <1>4, <1>5, <3>1
  <2>2. Inflight(t)' = Inflight(t)
    BY <1>1 DEF Inflight
  <2>3. Spent(t, today)' + MaxCost * Cardinality(Inflight(t)') <= Ceiling(t)'
    BY <1>5, <2>1, <2>2, CeilingFacts DEF IInv
  <2>4. ASSUME NEW d \in Day PROVE Spent(t, d)' + Allowance <= Ceiling(t)'
    BY <1>4, <1>5
  <2> QED
    BY <2>3, <2>4
<1> QED
  BY <1>2, <1>3, <1>6, <1>7 DEF IInv

(***************************************************************************)
(* A crash: no caller is left, and the spend is the ledger's or nothing.   *)
(***************************************************************************)
LEMMA CrashStep ==
  ASSUME IInv, Crash
  PROVE  IInv'
<1>1. /\ prices' = DefaultPrices /\ spendByDay' = NoSpend /\ repriced' = {}
      /\ call' = [q \in Request |-> Idle] /\ ledger' = ledger /\ today' = today
      /\ setbacks' = setbacks
  BY DEF Crash, clock
<1>2. Idle \in Call /\ Idle.phase = "idle"
  BY BudgetAssumption DEF Idle, Call, Phase
<1>3. TypeOK'
  BY <1>1, <1>2 DEF IInv, TypeOK, NoSpend, PriceTables
<1>4. CallsOK'
  BY <1>1, <1>2 DEF CallsOK, CallOK
<1>5. ASSUME NEW t \in Tenant, NEW d \in Day
      PROVE  /\ Spent(t, d)' <= Spent(t, d) /\ Spent(t, d)' \in Nat /\ Spent(t, d) \in Nat
             /\ spendByDay'[t][d] <= ledger'[t][d]
  <2>1. spendByDay'[t][d] = 0
    BY <1>1 DEF NoSpend
  <2>2. ledger[t][d] \in Nat /\ Spent(t, d) \in Nat
    BY SpentFacts DEF IInv
  <2> QED
    BY <1>1, <2>1, <2>2 DEF Spent
<1>6. ASSUME NEW t \in Tenant
      PROVE  /\ Ceiling(t)' = Ceiling(t) /\ Ceiling(t) \in Nat /\ Allowance \in Nat
             /\ MaxCost * Cardinality(Inflight(t)) \in Nat
             /\ MaxCost * Cardinality(Inflight(t)') = 0
  <2>1. Inflight(t)' = {}
    BY <1>1, <1>2 DEF Inflight
  <2>2. Cardinality(Inflight(t)') = 0
    BY <2>1, FS_EmptySet
  <2> QED
    BY <1>1, <2>2, CeilingMoves, CeilingFacts, CostAssumption DEF IInv
<1>7. OverspendBounded' /\ CacheNeverAhead'
  <2>1. ASSUME NEW t \in Tenant, NEW d \in Day, BudgetForTenant(t).daily > 0
        PROVE  Spent(t, d)' <= Ceiling(t)'
    <3>1. Spent(t, d) <= Ceiling(t)
      BY <2>1 DEF IInv, OverspendBounded
    <3> QED
      BY <1>5, <1>6, <3>1
  <2> QED
    BY <1>5, <2>1 DEF OverspendBounded, CacheNeverAhead
<1>8. RoomForInflight'
  <2> SUFFICES ASSUME NEW t \in Tenant, BudgetForTenant(t).daily > 0
               PROVE  /\ Spent(t, today)' + MaxCost * Cardinality(Inflight(t)') <= Ceiling(t)'
                      /\ \A d \in Day : d > today' => Spent(t, d)' + Allowance <= Ceiling(t)'
    BY DEF RoomForInflight
  <2>1. Spent(t, today)' + MaxCost * Cardinality(Inflight(t)') <= Ceiling(t)'
    <3>1. today \in Day /\ Spent(t, today) + MaxCost * Cardinality(Inflight(t)) <= Ceiling(t)
      BY DEF IInv, RoomForInflight, TypeOK
    <3>2. /\ Spent(t, today)' <= Spent(t, today) /\ Spent(t, today)' \in Nat
          /\ Spent(t, today) \in Nat
      BY <1>1, <1>5, <3>1 DEF Spent
    <3> QED
      BY <1>6, <3>1, <3>2
  <2>2. ASSUME NEW d \in Day, d > today PROVE Spent(t, d)' + Allowance <= Ceiling(t)'
    <3>1. Spent(t, d) + Allowance <= Ceiling(t)
      BY <2>2 DEF IInv, RoomForInflight
    <3> QED
      BY <1>5, <1>6, <3>1
  <2> QED
    BY <1>1, <2>1, <2>2
<1> QED
  BY <1>3, <1>4, <1>7, <1>8 DEF IInv

----------------------------------------------------------------------------
(***************************************************************************)
(* A new tracker satisfies the invariant.                                  *)
(***************************************************************************)
LEMMA InitInv == Init => IInv
<1> SUFFICES ASSUME Init PROVE IInv
  OBVIOUS
<1>1. Idle \in Call /\ Idle.phase = "idle"
  BY BudgetAssumption DEF Idle, Call, Phase
<1>2. TypeOK
  BY <1>1, RequestAssumption DEF Init, InitPrices, TypeOK, NoSpend, PriceTables, Day
<1>3. CallsOK
  BY <1>1 DEF Init, CallsOK, CallOK
<1>4. ASSUME NEW t \in Tenant, NEW d \in Day
      PROVE  Spent(t, d) = 0 /\ ledger[t][d] = 0 /\ spendByDay[t][d] = 0
  BY DEF Init, NoSpend, Spent
<1>5. ASSUME NEW t \in Tenant
      PROVE  /\ MaxCost * Cardinality(Inflight(t)) <= Allowance
             /\ MaxCost * Cardinality(Inflight(t)) \in Nat
             /\ Allowance \in Nat /\ Ceiling(t) \in Nat /\ Allowance <= Ceiling(t)
  BY <1>2, BudgetFacts, CeilingFacts
<1>6. today \in Day
  BY <1>2 DEF TypeOK
<1>7. OverspendBounded /\ CacheNeverAhead
  BY <1>4, <1>5 DEF OverspendBounded, CacheNeverAhead
<1>8. RoomForInflight
  BY <1>4, <1>5, <1>6 DEF RoomForInflight
<1> QED
  BY <1>2, <1>3, <1>7, <1>8 DEF IInv

(***************************************************************************)
(* Every step of a caller, of the process and of the world keeps it.       *)
(***************************************************************************)
LEMMA NextInv == IInv /\ [Next]_vars => IInv'
<1> SUFFICES ASSUME IInv, [Next]_vars PROVE IInv'
  OBVIOUS
<1>1. ASSUME NEW q \in Request, CallerStep(q) PROVE IInv'
  BY <1>1, EstimateStep, UnchargedStep, AdmitStep, PriceUsageStep, ChargeStep
     DEF CallerStep
<1> QED
  BY <1>1, WorldStep, NextDayStep, ClockBackStep, CrashStep DEF Next

(***************************************************************************)
(* The inductive invariant holds at all times: types, what each phase of a *)
(* call has established, and the room left for the callers in flight.      *)
(***************************************************************************)
THEOREM Accounted == Spec => []IInv
BY InitInv, NextInv, PTL DEF Spec

(***************************************************************************)
(* The tracker's state keeps its types: no spend, estimate or charge is    *)
(* ever negative, and the price table is always one of the known ones.     *)
(***************************************************************************)
THEOREM TypeCorrect == Spec => []TypeOK
<1>1. IInv => TypeOK
  BY DEF IInv
<1> QED
  BY <1>1, Accounted, PTL

(***************************************************************************)
(* However many callers race between AllowTenant and RecordTenant, and     *)
(* whatever fails, a daily budget is exceeded by at most one maximal       *)
(* request per caller, and by that much again per setback of the clock.    *)
(***************************************************************************)
THEOREM OverspendTheorem == Spec => []OverspendBounded
<1>1. IInv => OverspendBounded
  BY DEF IInv
<1> QED
  BY <1>1, Accounted, PTL

(***************************************************************************)
(* At every moment there is room left for a charge by every caller between *)
(* AllowTenant and RecordTenant, today and on every day to come.           *)
(***************************************************************************)
THEOREM RoomTheorem == Spec => []RoomForInflight
<1>1. IInv => RoomForInflight
  BY DEF IInv
<1> QED
  BY <1>1, Accounted, PTL

(***************************************************************************)
(* The tracker's map never shows a charge that the ledger does not have.   *)
(***************************************************************************)
THEOREM CacheTheorem == Spec => []CacheNeverAhead
<1>1. IInv => CacheNeverAhead
  BY DEF IInv
<1> QED
  BY <1>1, Accounted, PTL

(***************************************************************************)
(* The per-request budget holds for the charge, not only for the estimate, *)
(* unless the prices changed in between or the provider went beyond        *)
(* max_tokens.                                                             *)
(***************************************************************************)
THEOREM PerRequestTheorem == Spec => []PerRequestHonoured
<1>1. IInv => PerRequestHonoured
  <2> SUFFICES ASSUME IInv, NEW q \in Request,
                      call[q].phase = "priced", q \notin repriced,
                      call[q].completion <= call[q].max,
                      BudgetForTenant(call[q].tenant).perReq > 0
               PROVE  call[q].cost <= BudgetForTenant(call[q].tenant).perReq
    BY DEF PerRequestHonoured
  <2> DEFINE m == call[q].model
             p == call[q].prompt
  <2>1. CallOK(q) /\ call[q] \in Call /\ prices \in PriceTables
    BY DEF IInv, CallsOK, TypeOK
  <2>2. /\ m \in Model /\ p \in Nat /\ call[q].max \in Nat /\ call[q].completion \in Nat
        /\ call[q].estimated = Price(prices, m, p, call[q].max)
        /\ call[q].cost = Price(prices, m, p, call[q].completion)
        /\ ~OverPerRequest(q)
        /\ call[q].tenant \in Tenant /\ call[q].estimated \in Nat /\ call[q].cost \in Nat
    BY <2>1 DEF CallOK, Call
  <2>3. call[q].cost <= call[q].estimated
    BY <2>1, <2>2, PriceMonotone
  <2>4. call[q].estimated <= BudgetForTenant(call[q].tenant).perReq
    BY <2>2, BudgetFacts DEF OverPerRequest
  <2> QED
    BY <2>2, <2>3, <2>4, BudgetFacts
<1> QED
  BY <1>1, Accounted, PTL

(***************************************************************************)
(* What was spent is never forgotten, as long as there is a ledger: every  *)
(* step, a crash included, leaves each day's spend as it is or larger.     *)
(***************************************************************************)
THEOREM SpendTheorem == Spec => SpendNeverForgotten
<1> DEFINE Grows == Persistent => \A t \in Tenant, d \in Day : Spent(t, d)' >= Spent(t, d)
<1>1. IInv /\ [Next]_vars => [Grows]_vars
  <2> SUFFICES ASSUME IInv, Next, Persistent, NEW t \in Tenant, NEW d \in Day
               PROVE  Spent(t, d)' >= Spent(t, d)
    OBVIOUS
  <2>1. ledger[t][d] \in Nat /\ Spent(t, d) = ledger[t][d] /\ Spent(t, d)' = ledger'[t][d]
    BY SpentFacts DEF IInv, Spent
  <2>2. CASE ledger' = ledger
    BY <2>1, <2>2
  <2>3. ASSUME NEW q \in Request, Record(q) \/ RecordUnread(q)
        PROVE  ledger'[t][d] >= ledger[t][d]
    <3>1. /\ ledger' = AddSpend(ledger, q) /\ call[q].cost \in Nat
          /\ call[q].tenant \in Tenant /\ today \in Day
          /\ ledger \in [Tenant -> [Day -> Nat]]
      BY <2>3 DEF Record, RecordUnread, IInv, TypeOK, Call
    <3> QED
      BY <2>1, <3>1 DEF AddSpend
  <2>4. ledger' = ledger \/ \E q \in Request : Record(q) \/ RecordUnread(q)
    BY DEF Next, CallerStep, Estimate, AllowError, AllowReject, AllowAdmit, Abandon,
           PriceUsage, RecordFails, Snapshot, RefreshPrices, NextDay, ClockBack, Crash, costVars
  <2> QED
    BY <2>1, <2>2, <2>3, <2>4
<1> QED
  BY <1>1, Accounted, PTL DEF Spec, SpendNeverForgotten
=============================================================================
