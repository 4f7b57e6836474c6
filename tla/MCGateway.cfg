SPECIFICATION Spec
CONSTANTS
  q1 = q1
  q2 = q2
  Model <- MCModel
  DefaultPrices <- MCDefaultPrices
  Feed <- MCFeed
  Micro = 20
  Tenant <- MCTenant
  DefaultTenant = "default"
  NoTenant = ""
  CostCfg <- MCCostCfg
  TenantBudget <- MCTenantBudget
  Persistent = TRUE
  Request <- MCRequest
  Tokens = {1, 2}
  Completion = {0, 1}
  MaxCost = 100
  MaxDay = 1
  MaxSetbacks = 0
  MaxSpend = 400
  Body <- MCBody
  DefaultMaxTokens = 2
  PromptMode = "block"
  PIIMode = "redact"
  Providers <- MCProviders
  UpstreamStatus = {200, 400, 402, 403, 429, 500}
  Faults = FALSE
  Disconnects = FALSE
INVARIANTS
  TypeOK
  AuditTrail
  Reconciled
  MetricsAgree
SYMMETRY MCSymmetry
CHECK_DEADLOCK FALSE
