--------------------------- MODULE MigratorProofs ---------------------------
(***************************************************************************)
(* Proofs about startup and migration, for any number of processes that    *)
(* share the file and any contents it had before.                          *)
(***************************************************************************)
EXTENDS Migrator, TLAPS

(***************************************************************************)
(* What a process believes to be applied has been recorded, a process that *)
(* has gone on to the ledger has seen both audit versions, and one that    *)
(* serves has seen the ledger's as well.                                   *)
(***************************************************************************)
ProcOK(p) ==
  /\ proc[p].applied \subseteq versions[proc[p].ns]
  /\ proc[p].ns = "cost" => {1, 2} \subseteq versions["audit"]
  /\ proc[p].pc = "serving" => proc[p].ns = "cost" /\ 1 \in versions["cost"]

ProcsOK == \A p \in Process : ProcOK(p)

(***************************************************************************)
(* The tables themselves: rows without a tenant are only in legacy tables, *)
(* and a legacy ledger has no others.                                      *)
(***************************************************************************)
TablesOK ==
  /\ auditTable.schema # "legacy" => auditTable.events[NoTenant] = 0
  /\ costTable.schema = "legacy" => costTable.spend = NoSpend
  /\ costTable.schema # "legacy" => costTable.byDay = [d \in Day |-> 0]

IInv == TypeOK /\ TablesOK /\ ProcsOK /\ RecordedMeansDone /\ NothingLost

----------------------------------------------------------------------------
(***************************************************************************)
(* The version a process turns to next is one of the namespace's, not yet  *)
(* seen applied, and the first such.                                       *)
(***************************************************************************)
LEMMA NextVersionFacts ==
  ASSUME TypeOK, NEW p \in Process, Pending(p) # {}
  PROVE  /\ NextVersion(p) \in Pending(p) /\ NextVersion(p) \in {1, 2}
         /\ proc[p].ns = "cost" => NextVersion(p) = 1
         /\ NextVersion(p) = 2 => 1 \in proc[p].applied
<1>1. Pending(p) \subseteq {1, 2}
  BY DEF Pending, Migrations
<1>2. \E v \in Pending(p) : \A w \in Pending(p) : v <= w
  <2>1. CASE 1 \in Pending(p)
    BY <1>1, <2>1
  <2>2. CASE 1 \notin Pending(p)
    BY <1>1, <2>2
  <2> QED
    BY <2>1, <2>2
<1>3. NextVersion(p) \in Pending(p) /\ \A w \in Pending(p) : NextVersion(p) <= w
  BY <1>2 DEF NextVersion
<1>4. proc[p].ns \in Namespace
  BY DEF TypeOK, Proc
<1>5. proc[p].ns = "cost" => NextVersion(p) = 1
  BY <1>3 DEF Pending, Migrations
<1>6. ASSUME NextVersion(p) = 2 PROVE 1 \in proc[p].applied
  <2>1. proc[p].ns = "audit"
    BY <1>4, <1>5, <1>6 DEF Namespace
  <2>2. 1 \notin Pending(p)
    BY <1>3, <1>6
  <2> QED
    BY <2>1, <2>2 DEF Pending, Migrations
<1> QED
  BY <1>1, <1>3, <1>5, <1>6

(***************************************************************************)
(* The first audit migration: it creates the table, with the tenant column *)
(* and no rows, or leaves it as it is.                                     *)
(***************************************************************************)
LEMMA CreateAuditEventsFacts ==
  ASSUME TypeOK
  PROVE  LET a == CreateAuditEvents(auditTable)
         IN  /\ a \in AuditTable /\ a.events = auditTable.events
             /\ a.schema # "none"
             /\ a.schema = (IF auditTable.schema = "none" THEN "tenant"
                            ELSE auditTable.schema)
             /\ {"timestamp", "request_id"} \subseteq a.indexes
             /\ auditTable.indexes \subseteq a.indexes
<1>1. auditTable \in AuditTable
  BY DEF TypeOK
<1> QED
  BY <1>1 DEF CreateAuditEvents, AuditTable, Schema, Index

(***************************************************************************)
(* The second: every event has a tenant, and none changes its count.       *)
(***************************************************************************)
LEMMA EnsureAuditTenantIDFacts ==
  ASSUME TypeOK
  PROVE  LET a == EnsureAuditTenantID(auditTable)
         IN  /\ a \in AuditTable
             /\ a.schema = "tenant" /\ "tenant_id" \in a.indexes
             /\ auditTable.indexes \subseteq a.indexes
             /\ a.events[NoTenant] = 0
             /\ a.events[DefaultTenant]
                  = auditTable.events[DefaultTenant] + auditTable.events[NoTenant]
             /\ \A t \in Tenant \ {DefaultTenant} : a.events[t] = auditTable.events[t]
<1>1. auditTable \in AuditTable
  BY DEF TypeOK
<1>2. DefaultTenant \in Tenant /\ NoTenant \notin Tenant
  BY MigratorAssumption
<1>3. /\ auditTable.events \in [Tenant \cup {NoTenant} -> Nat]
      /\ auditTable.indexes \subseteq Index
  BY <1>1 DEF AuditTable
<1>4. auditTable.events[DefaultTenant] \in Nat /\ auditTable.events[NoTenant] \in Nat
  BY <1>2, <1>3
<1> QED
  BY <1>2, <1>3, <1>4 DEF EnsureAuditTenantID, AuditTable, Schema, Index

(***************************************************************************)
(* The ledger's migration: whatever the table was, it has tenants, and     *)
(* nobody's spend has changed; the legacy rows are the default tenant's.   *)
(***************************************************************************)
LEMMA MigrateTenantCostSpendFacts ==
  ASSUME TypeOK, TablesOK
  PROVE  LET c == MigrateTenantCostSpend(costTable)
         IN  /\ c \in CostTable /\ c.schema = "tenant"
             /\ c.byDay = [d \in Day |-> 0]
             /\ \A t \in Tenant, d \in Day :
                  c.spend[t][d] = SpendOf(t, d)
<1> DEFINE c == MigrateTenantCostSpend(costTable)
<1>1. /\ costTable \in CostTable /\ DefaultTenant \in Tenant
      /\ costTable.byDay \in [Day -> Nat] /\ costTable.spend \in [Tenant -> [Day -> Nat]]
  BY MigratorAssumption DEF TypeOK, CostTable
<1>2. NoSpend \in [Tenant -> [Day -> Nat]] /\ [d \in Day |-> 0] \in [Day -> Nat]
  BY DEF NoSpend
<1>3. CASE costTable.schema = "legacy"
  <2>1. c = [schema |-> "tenant", byDay |-> [d \in Day |-> 0],
             spend |-> [NoSpend EXCEPT ![DefaultTenant] = costTable.byDay]]
    BY <1>3 DEF MigrateTenantCostSpend
  <2>2. c \in CostTable /\ c.schema = "tenant" /\ c.byDay = [d \in Day |-> 0]
    BY <2>1, <1>1, <1>2 DEF CostTable, Schema
  <2>3. ASSUME NEW t \in Tenant, NEW d \in Day PROVE c.spend[t][d] = SpendOf(t, d)
    <3>1. costTable.spend[t][d] = 0
      BY <1>3, <2>3 DEF TablesOK, NoSpend
    <3>2. costTable.byDay[d] \in Nat
      BY <1>1, <2>3
    <3>3. CASE t = DefaultTenant
      BY <2>1, <3>1, <3>2, <3>3, <1>1, <1>2 DEF SpendOf
    <3>4. CASE t # DefaultTenant
      <4>1. c.spend[t] = NoSpend[t]
        BY <2>1, <3>4, <1>2, <2>3
      <4> QED
        BY <3>1, <3>4, <4>1, <2>3 DEF SpendOf, NoSpend
    <3> QED
      BY <3>3, <3>4
  <2> QED
    BY <2>2, <2>3
<1>4. CASE costTable.schema # "legacy"
  <2>1. c = [costTable EXCEPT !.schema = "tenant"]
    BY <1>4 DEF MigrateTenantCostSpend
  <2>2. /\ c \in CostTable /\ c.schema = "tenant"
        /\ c.byDay = costTable.byDay /\ c.spend = costTable.spend
    BY <2>1, <1>1 DEF CostTable, Schema
  <2>3. ASSUME NEW t \in Tenant, NEW d \in Day PROVE c.spend[t][d] = SpendOf(t, d)
    <3>1. costTable.byDay[d] = 0 /\ costTable.spend[t][d] \in Nat
      BY <1>1, <1>4, <2>3 DEF TablesOK
    <3> QED
      BY <2>2, <3>1 DEF SpendOf
  <2> QED
    BY <2>2, <2>3, <1>4 DEF TablesOK
<1> QED
  BY <1>3, <1>4

----------------------------------------------------------------------------
(***************************************************************************)
(* Steps of a process that leave the file alone keep the invariant, as     *)
(* long as the process does not claim more than has been recorded.         *)
(***************************************************************************)
LEMMA ProcStep ==
  ASSUME IInv, NEW p \in Process, UNCHANGED <<dbVars, acked>>,
         interrupts' \in 0..MaxInterrupts,
         NEW new \in Proc, proc' = [proc EXCEPT ![p] = new],
         new.applied \subseteq versions[new.ns],
         new.ns = "cost" => {1, 2} \subseteq versions["audit"],
         new.pc = "serving" => new.ns = "cost" /\ 1 \in versions["cost"]
  PROVE  IInv'
<1>1. TypeOK'
  BY DEF IInv, TypeOK, dbVars
<1>2. ProcsOK'
  BY DEF IInv, TypeOK, ProcsOK, ProcOK, dbVars
<1>3. TablesOK' /\ RecordedMeansDone' /\ NothingLost'
  BY DEF IInv, TablesOK, RecordedMeansDone, NothingLost, EventCount, SpendOf, dbVars
<1> QED
  BY <1>1, <1>2, <1>3 DEF IInv

(***************************************************************************)
(* Startup outside of transactions: a process starts, reads the versions,  *)
(* is refused one, is interrupted or goes on to the next store.            *)
(***************************************************************************)
LEMMA StartupStep ==
  ASSUME IInv, NEW p \in Process,
         Start(p) \/ ReadApplied(p) \/ MigrationRefused(p) \/ Migrated(p) \/ Interrupt(p)
  PROVE  IInv'
<1>1. /\ proc[p] \in Proc /\ proc \in [Process -> Proc] /\ ProcOK(p)
      /\ interrupts \in 0..MaxInterrupts /\ MaxInterrupts \in Nat
      /\ versions \in [Namespace -> SUBSET {1, 2}]
  BY MigratorAssumption DEF IInv, TypeOK, ProcsOK
<1>2. Down \in Proc
  BY DEF Down, Proc, Namespace
<1>3. CASE Start(p)
  <2> DEFINE new == [proc[p] EXCEPT !.pc = "open"]
  <2>1. new \in Proc /\ new.applied = proc[p].applied /\ new.ns = proc[p].ns /\ new.pc = "open"
    BY <1>1 DEF Proc
  <2>2. proc' = [proc EXCEPT ![p] = new] /\ UNCHANGED <<dbVars, acked, interrupts>>
    BY <1>3 DEF Start
  <2> HIDE DEF new
  <2> QED
    BY <1>1, <2>1, <2>2, ProcStep DEF ProcOK
<1>4. CASE ReadApplied(p)
  <2> DEFINE new == [proc[p] EXCEPT !.pc = "migrate", !.applied = versions[proc[p].ns]]
  <2>1. /\ new \in Proc /\ new.applied = versions[proc[p].ns]
        /\ new.ns = proc[p].ns /\ new.pc = "migrate"
    BY <1>1 DEF Proc
  <2>2. proc' = [proc EXCEPT ![p] = new] /\ UNCHANGED <<dbVars, acked, interrupts>>
    BY <1>4 DEF ReadApplied, AppliedVersions
  <2> HIDE DEF new
  <2> QED
    BY <1>1, <2>1, <2>2, ProcStep DEF ProcOK
<1>5. CASE MigrationRefused(p) \/ Interrupt(p)
  <2>1. /\ proc' = [proc EXCEPT ![p] = Down] /\ UNCHANGED <<dbVars, acked>>
        /\ interrupts' \in 0..MaxInterrupts
    BY <1>1, <1>5 DEF MigrationRefused, Interrupt, Exit
  <2>2. Down.applied = {} /\ Down.ns = "audit" /\ Down.pc = "down"
    BY DEF Down
  <2> QED
    BY <1>2, <2>1, <2>2, ProcStep
<1>6. CASE Migrated(p)
  <2>1. Pending(p) = {} /\ UNCHANGED <<dbVars, acked, interrupts>>
    BY <1>6 DEF Migrated
  <2>2. Migrations(proc[p].ns) \subseteq versions[proc[p].ns]
    BY <1>1, <2>1 DEF Pending, ProcOK
  <2>3. CASE proc[p].ns = "audit"
    <3> DEFINE new == [pc |-> "open", ns |-> "cost", applied |-> {}]
    <3>1. proc' = [proc EXCEPT ![p] = new] /\ new \in Proc
      BY <1>6, <2>3 DEF Migrated, Proc, Namespace
    <3>2. {1, 2} \subseteq versions["audit"]
      BY <2>2, <2>3 DEF Migrations
    <3> QED
      BY <1>1, <2>1, <3>1, <3>2, ProcStep
  <2>4. CASE proc[p].ns # "audit"
    <3> DEFINE new == [pc |-> "serving", ns |-> "cost", applied |-> {}]
    <3>1. proc' = [proc EXCEPT ![p] = new] /\ new \in Proc
      BY <1>6, <2>4 DEF Migrated, Proc, Namespace
    <3>2. proc[p].ns = "cost"
      BY <1>1, <2>4 DEF Proc, Namespace
    <3>3. {1, 2} \subseteq versions["audit"] /\ 1 \in versions["cost"]
      BY <1>1, <2>2, <3>2 DEF Migrations, ProcOK
    <3> QED
      BY <1>1, <2>1, <3>1, <3>3, ProcStep
  <2> QED
    BY <2>3, <2>4
<1> QED
  BY <1>3, <1>4, <1>5, <1>6

(***************************************************************************)
(* A transaction that commits: the change of its version is made and the   *)
(* version recorded, and nothing that was there is lost or counted twice   *)
(* (runMigration).  The version is new, so its change is made to a table   *)
(* that no process has migrated.                                           *)
(***************************************************************************)
LEMMA RunMigrationStep ==
  ASSUME IInv, NEW p \in Process, RunMigration(p)
  PROVE  IInv'
<1> DEFINE ns == proc[p].ns
           v == NextVersion(p)
<1>1. /\ proc[p] \in Proc /\ proc \in [Process -> Proc] /\ ProcOK(p)
      /\ versions \in [Namespace -> SUBSET {1, 2}] /\ ns \in Namespace
  BY DEF IInv, TypeOK, ProcsOK, Proc
<1>2. /\ v \in {1, 2}
      /\ ns = "cost" => v = 1
      /\ v = 2 => 1 \in versions[ns]
  BY <1>1, NextVersionFacts DEF IInv, RunMigration, ProcOK
<1>3. /\ versions' = [versions EXCEPT ![ns] = @ \cup {v}]
      /\ proc' = [proc EXCEPT ![p].applied = @ \cup {v}]
      /\ interrupts' = interrupts /\ acked' = acked
      /\ ApplyMigration(ns, v)
  BY DEF RunMigration
<1>4. /\ versions' \in [Namespace -> SUBSET {1, 2}]
      /\ versions'[ns] = versions[ns] \cup {v}
      /\ \A n \in Namespace : n # ns => versions'[n] = versions[n]
      /\ \A n \in Namespace : versions[n] \subseteq versions'[n]
  BY <1>1, <1>2, <1>3
<1>5. proc' \in [Process -> Proc]
  <2>1. [proc[p] EXCEPT !.applied = @ \cup {v}] \in Proc
    BY <1>1, <1>2 DEF Proc
  <2> QED
    BY <1>1, <1>3, <2>1
<1>6. ProcsOK'
  <2> SUFFICES ASSUME NEW r \in Process PROVE ProcOK(r)'
    BY DEF ProcsOK
  <2>1. /\ proc[r] \in Proc /\ ProcOK(r) /\ proc[r].ns \in Namespace
        /\ "audit" \in Namespace /\ "cost" \in Namespace
    BY <1>1 DEF IInv, ProcsOK, Proc, Namespace
  <2>2. proc'[r].ns = proc[r].ns /\ proc'[r].pc = proc[r].pc
    BY <1>1, <1>3, <2>1 DEF Proc
  <2>3. proc'[r].applied \subseteq versions'[proc[r].ns]
    <3>1. CASE r = p
      <4>1. proc'[p].applied = proc[p].applied \cup {v}
        BY <1>1, <1>3 DEF Proc
      <4> QED
        BY <1>1, <1>4, <3>1, <4>1 DEF ProcOK
    <3>2. CASE r # p
      <4>1. proc'[r] = proc[r]
        BY <1>3, <1>1, <3>2
      <4> QED
        BY <1>4, <2>1, <4>1 DEF ProcOK
    <3> QED
      BY <3>1, <3>2
  <2> QED
    BY <1>4, <2>1, <2>2, <2>3 DEF ProcOK
<1>7. CASE ns = "audit" /\ v = 1
  <2> DEFINE a == CreateAuditEvents(auditTable)
  <2>1. auditTable' = a /\ costTable' = costTable
    BY <1>3, <1>7 DEF ApplyMigration
  <2>2. /\ a \in AuditTable /\ a.events = auditTable.events
        /\ a.schema # "none"
        /\ a.schema = (IF auditTable.schema = "none" THEN "tenant" ELSE auditTable.schema)
        /\ {"timestamp", "request_id"} \subseteq a.indexes
        /\ auditTable.indexes \subseteq a.indexes
    BY CreateAuditEventsFacts DEF IInv
  <2> HIDE DEF a
  <2>3. TypeOK'
    BY <1>3, <1>4, <1>5, <2>1, <2>2 DEF IInv, TypeOK
  <2>4. TablesOK'
    BY <2>1, <2>2 DEF IInv, TablesOK
  <2>5. NothingLost'
    BY <1>3, <2>1, <2>2 DEF IInv, NothingLost, EventCount, SpendOf
  <2>6. RecordedMeansDone'
    BY <1>4, <1>7, <2>1, <2>2 DEF IInv, RecordedMeansDone, Namespace
  <2> QED
    BY <1>6, <2>3, <2>4, <2>5, <2>6 DEF IInv
<1>8. CASE ns = "audit" /\ v = 2
  <2> DEFINE a == EnsureAuditTenantID(auditTable)
  <2>1. auditTable' = a /\ costTable' = costTable
    BY <1>3, <1>8 DEF ApplyMigration
  <2>2. /\ a \in AuditTable
        /\ a.schema = "tenant" /\ "tenant_id" \in a.indexes
        /\ auditTable.indexes \subseteq a.indexes
        /\ a.events[NoTenant] = 0
        /\ a.events[DefaultTenant]
             = auditTable.events[DefaultTenant] + auditTable.events[NoTenant]
        /\ \A t \in Tenant \ {DefaultTenant} : a.events[t] = auditTable.events[t]
    BY EnsureAuditTenantIDFacts DEF IInv
  <2> HIDE DEF a
  <2>3. TypeOK'
    BY <1>3, <1>4, <1>5, <2>1, <2>2 DEF IInv, TypeOK
  <2>4. TablesOK'
    BY <2>1, <2>2 DEF IInv, TablesOK
  <2>5. \A t \in Tenant : EventCount(t)' = EventCount(t)
    <3>1. \A t \in Tenant : auditTable.events[t] \in Nat /\ auditTable.events[NoTenant] \in Nat
      BY DEF IInv, TypeOK, AuditTable
    <3>2. DefaultTenant \in Tenant
      BY MigratorAssumption
    <3> QED
      BY <2>1, <2>2, <3>1, <3>2 DEF EventCount
  <2>6. NothingLost'
    BY <1>3, <2>1, <2>5 DEF IInv, NothingLost, SpendOf
  <2>7. RecordedMeansDone'
    BY <1>2, <1>4, <1>8, <2>1, <2>2 DEF IInv, RecordedMeansDone, Namespace
  <2> QED
    BY <1>6, <2>3, <2>4, <2>6, <2>7 DEF IInv
<1>9. CASE ns = "cost"
  <2> DEFINE c == MigrateTenantCostSpend(costTable)
  <2>1. auditTable' = auditTable /\ costTable' = c
    BY <1>3, <1>9 DEF ApplyMigration
  <2>2. /\ c \in CostTable /\ c.schema = "tenant" /\ c.byDay = [d \in Day |-> 0]
        /\ \A t \in Tenant, d \in Day : c.spend[t][d] = SpendOf(t, d)
    BY MigrateTenantCostSpendFacts DEF IInv
  <2> HIDE DEF c
  <2>3. TypeOK'
    BY <1>3, <1>4, <1>5, <2>1, <2>2 DEF IInv, TypeOK
  <2>4. TablesOK'
    BY <2>1, <2>2 DEF IInv, TablesOK
  <2>5. ASSUME NEW t \in Tenant, NEW d \in Day PROVE SpendOf(t, d)' = SpendOf(t, d)
    <3>1. c.spend[t][d] \in Nat /\ c.byDay[d] = 0
      BY <2>2, <2>5 DEF CostTable
    <3> QED
      BY <2>1, <2>2, <3>1, <2>5 DEF SpendOf
  <2>6. NothingLost'
    BY <1>3, <2>1, <2>5 DEF IInv, NothingLost, EventCount
  <2>7. RecordedMeansDone'
    BY <1>4, <1>9, <2>1, <2>2 DEF IInv, RecordedMeansDone, Namespace
  <2> QED
    BY <1>6, <2>3, <2>4, <2>6, <2>7 DEF IInv
<1> QED
  BY <1>1, <1>2, <1>7, <1>8, <1>9 DEF Namespace

(***************************************************************************)
(* The writes of a process that serves count once.                         *)
(***************************************************************************)
LEMMA AddSpendStep ==
  ASSUME IInv, NEW p \in Process, NEW t \in Tenant, NEW d \in Day, AddSpend(p, t, d)
  PROVE  IInv'
<1>1. /\ costTable \in CostTable /\ costTable.spend \in [Tenant -> [Day -> Nat]]
      /\ costTable.byDay \in [Day -> Nat]
      /\ acked.spend \in [Tenant -> [Day -> Nat]] /\ acked.events \in [Tenant -> Nat]
  BY DEF IInv, TypeOK, CostTable
<1> DEFINE s == [costTable.spend EXCEPT ![t][d] = @ + 1]
           k == [acked.spend EXCEPT ![t][d] = @ + 1]
<1>2. s \in [Tenant -> [Day -> Nat]] /\ k \in [Tenant -> [Day -> Nat]]
  BY <1>1
<1>3. /\ costTable' \in CostTable /\ costTable'.spend = s
      /\ costTable'.byDay = costTable.byDay /\ costTable'.schema = costTable.schema
      /\ acked' \in [events : [Tenant -> Nat], spend : [Tenant -> [Day -> Nat]]]
      /\ acked'.spend = k /\ acked'.events = acked.events
      /\ auditTable' = auditTable /\ versions' = versions /\ proc' = proc
      /\ interrupts' = interrupts /\ costTable.schema = "tenant"
  BY <1>1, <1>2 DEF AddSpend, IInv, TypeOK, CostTable
<1>4. TypeOK'
  BY <1>3 DEF IInv, TypeOK
<1>5. TablesOK' /\ ProcsOK' /\ RecordedMeansDone'
  BY <1>3 DEF IInv, TablesOK, ProcsOK, ProcOK, RecordedMeansDone
<1>6. NothingLost'
  <2> SUFFICES ASSUME NEW u \in Tenant, NEW e \in Day
               PROVE  EventCount(u)' = acked'.events[u] /\ SpendOf(u, e)' = acked'.spend[u][e]
    <3>1. NothingLost' <=> \A u \in Tenant : /\ EventCount(u)' = acked'.events[u]
                                 /\ \A e \in Day : SpendOf(u, e)' = acked'.spend[u][e]
      BY DEF NothingLost
    <3> QED
      BY <3>1
  <2>1. EventCount(u)' = acked'.events[u]
    BY <1>3 DEF IInv, NothingLost, EventCount
  <2>2. /\ SpendOf(u, e) = acked.spend[u][e]
        /\ costTable.spend[u][e] \in Nat /\ costTable.byDay[e] \in Nat
    BY <1>1 DEF IInv, NothingLost
  <2>3. CASE u = t /\ e = d
    <3>1. s[u][e] = costTable.spend[u][e] + 1 /\ k[u][e] = acked.spend[u][e] + 1
      BY <1>1, <2>3
    <3> HIDE DEF s, k
    <3>2. costTable'.spend[u][e] = costTable.spend[u][e] + 1
          /\ acked'.spend[u][e] = acked.spend[u][e] + 1
          /\ costTable'.byDay[e] = costTable.byDay[e]
      BY <1>3, <3>1
    <3> QED
      BY <2>1, <2>2, <3>2 DEF SpendOf
  <2>4. CASE ~(u = t /\ e = d)
    <3>1. s[u][e] = costTable.spend[u][e] /\ k[u][e] = acked.spend[u][e]
      BY <1>1, <2>4
    <3> HIDE DEF s, k
    <3>2. costTable'.spend[u][e] = costTable.spend[u][e]
          /\ acked'.spend[u][e] = acked.spend[u][e]
          /\ costTable'.byDay[e] = costTable.byDay[e]
      BY <1>3, <3>1
    <3> QED
      BY <2>1, <2>2, <3>2 DEF SpendOf
  <2> QED
    BY <2>1, <2>2, <2>3, <2>4
<1> QED
  BY <1>4, <1>5, <1>6 DEF IInv

(***************************************************************************)
(* The same for the events of the audit log.                               *)
(***************************************************************************)
LEMMA RecordStep ==
  ASSUME IInv, NEW p \in Process, NEW t \in Tenant, Record(p, t)
  PROVE  IInv'
<1>1. /\ auditTable \in AuditTable /\ NoTenant \notin Tenant
      /\ auditTable.events \in [Tenant \cup {NoTenant} -> Nat]
      /\ acked.spend \in [Tenant -> [Day -> Nat]] /\ acked.events \in [Tenant -> Nat]
  BY MigratorAssumption DEF IInv, TypeOK, AuditTable
<1> DEFINE s == [auditTable.events EXCEPT ![t] = @ + 1]
           k == [acked.events EXCEPT ![t] = @ + 1]
<1>2. s \in [Tenant \cup {NoTenant} -> Nat] /\ k \in [Tenant -> Nat]
  BY <1>1
<1>3. /\ auditTable' \in AuditTable /\ auditTable'.events = s
      /\ auditTable'.indexes = auditTable.indexes
      /\ auditTable'.schema = auditTable.schema
      /\ acked' \in [events : [Tenant -> Nat], spend : [Tenant -> [Day -> Nat]]]
      /\ acked'.events = k /\ acked'.spend = acked.spend
      /\ costTable' = costTable /\ versions' = versions /\ proc' = proc
      /\ interrupts' = interrupts
  BY <1>1, <1>2 DEF Record, IInv, TypeOK, AuditTable
<1>4. s[NoTenant] = auditTable.events[NoTenant]
  BY <1>1
<1>5. TypeOK'
  BY <1>3 DEF IInv, TypeOK
<1>6. TablesOK' /\ ProcsOK' /\ RecordedMeansDone'
  BY <1>3, <1>4 DEF IInv, TablesOK, ProcsOK, ProcOK, RecordedMeansDone
<1>7. NothingLost'
  <2>1. \A u \in Tenant, e \in Day : SpendOf(u, e)' = acked'.spend[u][e]
    BY <1>3 DEF IInv, NothingLost, SpendOf
  <2>2. ASSUME NEW u \in Tenant PROVE EventCount(u)' = acked'.events[u]
    <3>1. /\ EventCount(u) = acked.events[u]
          /\ auditTable.events[u] \in Nat /\ auditTable.events[NoTenant] \in Nat
      BY <1>1, <2>2 DEF IInv, NothingLost
    <3>2. s[u] = auditTable.events[u] + (IF u = t THEN 1 ELSE 0)
      BY <1>1, <2>2
    <3>3. k[u] = acked.events[u] + (IF u = t THEN 1 ELSE 0)
      BY <1>1, <2>2
    <3> HIDE DEF s, k
    <3>4. /\ auditTable'.events[u] = auditTable.events[u] + (IF u = t THEN 1 ELSE 0)
          /\ acked'.events[u] = acked.events[u] + (IF u = t THEN 1 ELSE 0)
          /\ auditTable'.events[NoTenant] = auditTable.events[NoTenant]
      BY <1>3, <1>4, <3>2, <3>3
    <3> QED
      BY <3>1, <3>4 DEF EventCount
  <2> QED
    BY <2>1, <2>2 DEF NothingLost
<1> QED
  BY <1>5, <1>6, <1>7 DEF IInv

----------------------------------------------------------------------------
(***************************************************************************)
(* Whatever the file holds at first, it satisfies the invariant.           *)
(***************************************************************************)
LEMMA InitInv == Init => IInv
<1> SUFFICES ASSUME Init PROVE IInv
  OBVIOUS
<1>1. DefaultTenant \in Tenant /\ NoTenant \notin Tenant /\ MaxRows \in Nat /\ MaxInterrupts \in Nat
  BY MigratorAssumption
<1>2. NoEvents \in [Tenant \cup {NoTenant} -> Nat] /\ NoSpend \in [Tenant -> [Day -> Nat]]
  BY DEF NoEvents, NoSpend
<1>3. auditTable \in AuditTable /\ (auditTable.schema # "legacy" => auditTable.events[NoTenant] = 0)
  <2>1. PICK s \in Schema, n \in 0..MaxRows :
          auditTable = [schema |-> s, indexes |-> {},
                        events |-> [NoEvents EXCEPT
                          ![IF s = "legacy" THEN NoTenant ELSE DefaultTenant] = n]]
    BY DEF Init
  <2> QED
    BY <1>1, <1>2, <2>1 DEF AuditTable, NoEvents
<1>4. /\ costTable \in CostTable
      /\ costTable.schema = "legacy" => costTable.spend = NoSpend
      /\ costTable.schema # "legacy" => costTable.byDay = [d \in Day |-> 0]
  <2>1. PICK s \in Schema, rows \in [Day -> 0..MaxRows] :
          costTable = [schema |-> s,
                       byDay |-> IF s = "legacy" THEN rows ELSE [d \in Day |-> 0],
                       spend |-> IF s = "legacy" THEN NoSpend
                                 ELSE [NoSpend EXCEPT ![DefaultTenant] = rows]]
    BY DEF Init
  <2>2. rows \in [Day -> Nat] /\ [d \in Day |-> 0] \in [Day -> Nat]
    BY <1>1, <2>1
  <2>3. [NoSpend EXCEPT ![DefaultTenant] = rows] \in [Tenant -> [Day -> Nat]]
    BY <1>1, <1>2, <2>2
  <2> QED
    BY <1>2, <2>1, <2>2, <2>3 DEF CostTable
<1>5. \A t \in Tenant : /\ EventCount(t) \in Nat
                        /\ \A d \in Day : SpendOf(t, d) \in Nat
  BY <1>3, <1>4 DEF EventCount, SpendOf, AuditTable, CostTable
<1>6. /\ acked.events = [t \in Tenant |-> EventCount(t)]
      /\ acked.spend = [t \in Tenant |-> [d \in Day |-> SpendOf(t, d)]]
      /\ acked \in [events : [Tenant -> Nat], spend : [Tenant -> [Day -> Nat]]]
  BY <1>5 DEF Init
<1>7. TypeOK
  BY <1>1, <1>3, <1>4, <1>6 DEF Init, TypeOK, Down, Proc, Namespace
<1>8. TablesOK
  BY <1>3, <1>4 DEF TablesOK
<1>9. ProcsOK /\ RecordedMeansDone
  BY DEF Init, ProcsOK, ProcOK, RecordedMeansDone, Down, Namespace
<1>10. NothingLost
  BY <1>6 DEF NothingLost
<1> QED
  BY <1>7, <1>8, <1>9, <1>10 DEF IInv

(***************************************************************************)
(* Every step of every process keeps the invariant.                        *)
(***************************************************************************)
LEMMA NextInv == IInv /\ [Next]_vars => IInv'
<1> SUFFICES ASSUME IInv, [Next]_vars PROVE IInv'
  OBVIOUS
<1>1. CASE Next
  BY <1>1, StartupStep, RunMigrationStep, AddSpendStep, RecordStep DEF Next, Startup
<1>2. CASE UNCHANGED vars
  BY <1>2 DEF vars, IInv, TypeOK, TablesOK, ProcsOK, ProcOK, RecordedMeansDone,
              NothingLost, EventCount, SpendOf
<1> QED
  BY <1>1, <1>2

(***************************************************************************)
(* The inductive invariant of startup: types, tables that are either       *)
(* legacy or not, processes that believe only what is recorded, versions   *)
(* that tell the truth, and no row lost.                                   *)
(***************************************************************************)
THEOREM Migrating == Spec => []IInv
BY InitInv, NextInv, PTL DEF Spec

(***************************************************************************)
(* The tables, the recorded versions and every process keep their types.   *)
(***************************************************************************)
THEOREM TypeCorrect == Spec => []TypeOK
<1>1. IInv => TypeOK
  BY DEF IInv
<1> QED
  BY <1>1, Migrating, PTL

(***************************************************************************)
(* However many processes race through migrator.go and wherever they are   *)
(* interrupted, a recorded version means a migrated table.                 *)
(***************************************************************************)
THEOREM VersionsTellTheTruth == Spec => []RecordedMeansDone
<1>1. IInv => RecordedMeansDone
  BY DEF IInv
<1> QED
  BY <1>1, Migrating, PTL

(***************************************************************************)
(* No process serves from tables that lack what its statements name.       *)
(***************************************************************************)
THEOREM ServesMigrated == Spec => []ServingMigrated
<1>1. IInv => ServingMigrated
  BY DEF IInv, ServingMigrated, ProcsOK, ProcOK, RecordedMeansDone
<1> QED
  BY <1>1, Migrating, PTL

(***************************************************************************)
(* No event and no spend is lost, repeated or given to another tenant by a *)
(* migration, for any earlier contents and any number of processes.        *)
(***************************************************************************)
THEOREM MigrationPreserves == Spec => []NothingLost
<1>1. IInv => NothingLost
  BY DEF IInv
<1> QED
  BY <1>1, Migrating, PTL
=============================================================================
