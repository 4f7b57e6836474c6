------------------------------ MODULE Migrator ------------------------------
(***************************************************************************)
(* Startup against the SQLite file: internal/store/migrator.go with the    *)
(* migrations of the audit store (internal/audit/store.go) and of the cost *)
(* ledger (internal/cost/sqlite_ledger.go), in the order cmd/run.go opens  *)
(* them, and the writes of a process that serves.                          *)
(*                                                                         *)
(* Several processes can start on one file: a restart races the process it *)
(* replaces, and the rolling update docs/ha-deployment.md recommends keeps *)
(* the old one until the new one is ready.  A migrator reads which         *)
(* versions are applied before it begins any transaction, so what it read  *)
(* can be out of date.  A transaction is one step: SQLite serializes them, *)
(* and one that does not commit leaves nothing.                            *)
(***************************************************************************)
EXTENDS Integers, FiniteSets

CONSTANTS
  Process,                 \* the processes that use the file
  Tenant, DefaultTenant, NoTenant,
  Day,
  MaxRows,                 \* bound: spend per tenant and day, events per tenant
  MaxInterrupts            \* bound: crashes, I/O errors and lock timeouts

ASSUME MigratorAssumption ==
  /\ DefaultTenant \in Tenant /\ NoTenant \notin Tenant
  /\ MaxRows \in Nat /\ MaxInterrupts \in Nat

VARIABLES
  versions,    \* schema_migrations: the versions recorded in each namespace
  auditTable,  \* audit_events
  costTable,   \* cost_spend
  proc,        \* process |-> where its startup is
  interrupts,  \* how many interruptions there have been
  acked        \* history: the writes that succeeded, with the file's first contents

dbVars == <<versions, auditTable, costTable>>
vars == <<versions, auditTable, costTable, proc, interrupts, acked>>

----------------------------------------------------------------------------
(***************************************************************************)
(* The tables.  "legacy" is the schema before tenants; a table with the    *)
(* tenant column can also predate the migrator.  A missing row counts 0.   *)
(***************************************************************************)
Schema == {"none", "legacy", "tenant"}
Index == {"timestamp", "request_id", "tenant_id"}
Namespace == {"audit", "cost"}
Migrations(ns) == IF ns = "audit" THEN {1, 2} ELSE {1}

AuditTable == [schema : Schema, indexes : SUBSET Index,
               events : [Tenant \cup {NoTenant} -> Nat]]   \* NoTenant: no such column
CostTable == [schema : Schema, byDay : [Day -> Nat],       \* the legacy rows
              spend : [Tenant -> [Day -> Nat]]]            \* the rows with a tenant
NoEvents == [t \in Tenant \cup {NoTenant} |-> 0]
NoSpend == [t \in Tenant |-> [d \in Day |-> 0]]
Proc == [pc : {"down", "open", "migrate", "serving"}, ns : Namespace,
         applied : SUBSET {1, 2}]
Down == [pc |-> "down", ns |-> "audit", applied |-> {}]

TypeOK ==
  /\ versions \in [Namespace -> SUBSET {1, 2}]
  /\ auditTable \in AuditTable
  /\ costTable \in CostTable
  /\ proc \in [Process -> Proc]
  /\ interrupts \in 0..MaxInterrupts
  /\ acked \in [events : [Tenant -> Nat], spend : [Tenant -> [Day -> Nat]]]

\* What the tables say, whatever their schema: rows without tenant are the default's.
EventCount(t) ==
  auditTable.events[t] + (IF t = DefaultTenant THEN auditTable.events[NoTenant] ELSE 0)
SpendOf(t, d) ==
  costTable.spend[t][d] + (IF t = DefaultTenant THEN costTable.byDay[d] ELSE 0)

\* A new file, one of a release before tenants, one of a release before the migrator.
Init ==
  /\ versions = [ns \in Namespace |-> {}]
  /\ \E s \in Schema, n \in 0..MaxRows :
       /\ s = "none" => n = 0
       /\ auditTable = [schema |-> s, indexes |-> {},
                        events |-> [NoEvents EXCEPT
                          ![IF s = "legacy" THEN NoTenant ELSE DefaultTenant] = n]]
  /\ \E s \in Schema, rows \in [Day -> 0..MaxRows] :
       /\ s = "none" => \A d \in Day : rows[d] = 0
       /\ costTable = [schema |-> s,
                       byDay |-> IF s = "legacy" THEN rows ELSE [d \in Day |-> 0],
                       spend |-> IF s = "legacy" THEN NoSpend
                                 ELSE [NoSpend EXCEPT ![DefaultTenant] = rows]]
  /\ proc = [p \in Process |-> Down]
  /\ interrupts = 0
  /\ acked = [events |-> [t \in Tenant |-> EventCount(t)],
              spend |-> [t \in Tenant |-> [d \in Day |-> SpendOf(t, d)]]]

----------------------------------------------------------------------------
Exit(p) == proc' = [proc EXCEPT ![p] = Down]

\* cmd/run.go opens the audit store first.
Start(p) ==
  /\ proc[p].pc = "down"
  /\ proc' = [proc EXCEPT ![p].pc = "open"]
  /\ UNCHANGED <<dbVars, interrupts, acked>>

\* Mutant: no row of schema_migrations is ever found.
AppliedVersionsEmpty(ns) == {}

AppliedVersions(ns) == versions[ns]

\* Run creates schema_migrations if it is missing and reads the versions, once.
ReadApplied(p) ==
  /\ proc[p].pc = "open"
  /\ proc' = [proc EXCEPT ![p].pc = "migrate",
                          ![p].applied = AppliedVersions(proc[p].ns)]
  /\ UNCHANGED <<dbVars, interrupts, acked>>

(***************************************************************************)
(* The migrations, as what they make of their table.                       *)
(***************************************************************************)
CreateAuditEvents(a) ==
  [a EXCEPT !.schema = IF @ = "none" THEN "tenant" ELSE @,
            !.indexes = @ \cup {"timestamp", "request_id"}]

EnsureAuditTenantID(a) ==
  [schema |-> "tenant", indexes |-> a.indexes \cup {"tenant_id"},
   events |-> [a.events EXCEPT ![DefaultTenant] = @ + a.events[NoTenant],
                               ![NoTenant] = 0]]

\* Mutant: the legacy rows are not copied before their table is dropped.
MigrateTenantCostSpendDrops(c) ==
  [c EXCEPT !.schema = "tenant", !.byDay = [d \in Day |-> 0]]

MigrateTenantCostSpend(c) ==
  IF c.schema # "legacy" THEN [c EXCEPT !.schema = "tenant"]
  ELSE [schema |-> "tenant", byDay |-> [d \in Day |-> 0],
        spend |-> [NoSpend EXCEPT ![DefaultTenant] = c.byDay]]

\* The second audit migration alters a table that has to be there.
Applies(ns, v) == ns = "audit" /\ v = 2 => auditTable.schema # "none"

ApplyMigration(ns, v) ==
  /\ auditTable' = CASE ns = "audit" /\ v = 1 -> CreateAuditEvents(auditTable)
                     [] ns = "audit" /\ v = 2 -> EnsureAuditTenantID(auditTable)
                     [] ns = "cost" -> auditTable
  /\ costTable' = IF ns = "cost" THEN MigrateTenantCostSpend(costTable) ELSE costTable

----------------------------------------------------------------------------
\* The first version that the process has not seen applied.
Pending(p) == Migrations(proc[p].ns) \ proc[p].applied
NextVersion(p) == CHOOSE v \in Pending(p) : \A w \in Pending(p) : v <= w

\* Mutant: no transaction, and the version is recorded before the change is made.
RunMigrationRecordsFirst(p) ==
  LET ns == proc[p].ns
      v == NextVersion(p)
  IN  /\ proc[p].pc = "migrate" /\ Pending(p) # {} /\ v \notin versions[ns]
      /\ versions' = [versions EXCEPT ![ns] = @ \cup {v}]
      /\ \/ /\ ApplyMigration(ns, v)
            /\ proc' = [proc EXCEPT ![p].applied = @ \cup {v}]
         \/ UNCHANGED <<auditTable, costTable>> /\ Exit(p)
      /\ UNCHANGED <<interrupts, acked>>

\* The change and the record of its version commit together.
RunMigration(p) ==
  LET ns == proc[p].ns
      v == NextVersion(p)
  IN  /\ proc[p].pc = "migrate"
      /\ Pending(p) # {}
      /\ Applies(ns, v)
      /\ v \notin versions[ns]
      /\ ApplyMigration(ns, v)
      /\ versions' = [versions EXCEPT ![ns] = @ \cup {v}]
      /\ proc' = [proc EXCEPT ![p].applied = @ \cup {v}]
      /\ UNCHANGED <<interrupts, acked>>

\* Someone else has recorded the version: the primary key refuses it, the
\* transaction is rolled back and the process exits with the error.
MigrationRefused(p) ==
  /\ proc[p].pc = "migrate"
  /\ Pending(p) # {}
  /\ ~Applies(proc[p].ns, NextVersion(p)) \/ NextVersion(p) \in versions[proc[p].ns]
  /\ Exit(p)
  /\ UNCHANGED <<dbVars, interrupts, acked>>

\* Mutant: the server does not wait for the ledger.
MigratedServesEarly(p) ==
  /\ proc[p].pc = "migrate" /\ Pending(p) = {}
  /\ proc' = [proc EXCEPT ![p] = [pc |-> "serving", ns |-> "cost", applied |-> {}]]
  /\ UNCHANGED <<dbVars, interrupts, acked>>

\* Run returns: after the audit store comes the ledger, after the ledger the server.
Migrated(p) ==
  /\ proc[p].pc = "migrate"
  /\ Pending(p) = {}
  /\ proc' = [proc EXCEPT ![p] =
                IF proc[p].ns = "audit"
                  THEN [pc |-> "open", ns |-> "cost", applied |-> {}]
                  ELSE [pc |-> "serving", ns |-> "cost", applied |-> {}]]
  /\ UNCHANGED <<dbVars, interrupts, acked>>

(***************************************************************************)
(* A crash, an I/O error or a lock timeout ends a process at any point; an *)
(* open transaction is rolled back.                                        *)
(***************************************************************************)
Interrupt(p) ==
  /\ proc[p].pc # "down"
  /\ interrupts < MaxInterrupts
  /\ interrupts' = interrupts + 1
  /\ Exit(p)
  /\ UNCHANGED <<dbVars, acked>>

(***************************************************************************)
(* The writes of a process that serves.  The statements name tenant_id.    *)
(***************************************************************************)
AddSpend(p, t, d) ==
  /\ proc[p].pc = "serving"
  /\ costTable.schema = "tenant"
  /\ costTable.spend[t][d] < MaxRows
  /\ costTable' = [costTable EXCEPT !.spend[t][d] = @ + 1]
  /\ acked' = [acked EXCEPT !.spend[t][d] = @ + 1]
  /\ UNCHANGED <<versions, auditTable, proc, interrupts>>

Record(p, t) ==
  /\ proc[p].pc = "serving"
  /\ auditTable.schema = "tenant"
  /\ auditTable.events[t] < MaxRows
  /\ auditTable' = [auditTable EXCEPT !.events[t] = @ + 1]
  /\ acked' = [acked EXCEPT !.events[t] = @ + 1]
  /\ UNCHANGED <<versions, costTable, proc, interrupts>>

Startup(p) ==
  Start(p) \/ ReadApplied(p) \/ RunMigration(p) \/ MigrationRefused(p) \/ Migrated(p)

Next ==
  \E p \in Process :
    \/ Startup(p)
    \/ Interrupt(p)
    \/ \E t \in Tenant, d \in Day : AddSpend(p, t, d)
    \/ \E t \in Tenant : Record(p, t)

(***************************************************************************)
(* A process that is not serving goes on, and is started again when it     *)
(* exits, by whoever supervises it (Kubernetes does by default).           *)
(***************************************************************************)
Spec == Init /\ [][Next]_vars /\ \A p \in Process : WF_vars(Startup(p))

----------------------------------------------------------------------------
(***************************************************************************)
(* A version in schema_migrations means that its change is in the tables,  *)
(* and the audit versions are recorded in order: whichever processes raced *)
(* and wherever they were interrupted (runMigration).                      *)
(***************************************************************************)
RecordedMeansDone ==
  /\ 1 \in versions["audit"] =>
       auditTable.schema # "none" /\ {"timestamp", "request_id"} \subseteq auditTable.indexes
  /\ 2 \in versions["audit"] =>
       /\ 1 \in versions["audit"]
       /\ auditTable.schema = "tenant" /\ auditTable.events[NoTenant] = 0
       /\ "tenant_id" \in auditTable.indexes
  /\ 1 \in versions["cost"] => costTable.schema = "tenant"

(***************************************************************************)
(* A process serves only when both tables have the tenant column that its  *)
(* statements name, and no other process can take it away under it.        *)
(***************************************************************************)
ServingMigrated ==
  \A p \in Process :
    proc[p].pc = "serving" => auditTable.schema = "tenant" /\ costTable.schema = "tenant"

(***************************************************************************)
(* Every event and every cent that was ever in the file is still there,    *)
(* once, and belongs to the right tenant: rows from before tenants to the  *)
(* default one.  In particular the copy of the legacy ledger is not        *)
(* repeated by a process that starts while another already serves.         *)
(***************************************************************************)
NothingLost ==
  \A t \in Tenant :
    /\ EventCount(t) = acked.events[t]
    /\ \A d \in Day : SpendOf(t, d) = acked.spend[t][d]

(***************************************************************************)
(* Once interruptions cease, every process comes to serve and stays: a     *)
(* process that loses the race for a version fails, but not forever.       *)
(***************************************************************************)
StartupConverges == \A p \in Process : <>[](proc[p].pc = "serving")
=============================================================================
