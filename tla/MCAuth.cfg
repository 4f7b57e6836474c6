SPECIFICATION Spec
CONSTANTS
  Word <- MCWord
  DefaultTenant = "default"
  Config <- MCConfig
  Env <- MCEnv
  Tokens <- MCTokens
  Requests <- MCRequests
  GlobalBudget = 3
INVARIANTS
  TypeOK
  TenantEntitled
  AdminEntitled
  NoLockout
  BudgetOfItsSection
CHECK_DEADLOCK FALSE
