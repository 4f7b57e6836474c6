SPECIFICATION Spec
CONSTANTS
  q1 = q1
  q2 = q2
  Model <- MCModel
  DefaultPrices <- MCDefaultPrices
  Feed = {}
  Micro = 20
  Tenant <- MCTenant
  DefaultTenant = "default"
  NoTenant = ""
  CostCfg <- MCCostCfg
  TenantBudget <- MCTenantBudget
  Persistent = TRUE
  Request <- MCRequest
  Tokens = {1, 2}
  Completion = {0, 1}
  MaxCost = 100
  MaxDay = 0
  MaxSetbacks = 0
  MaxSpend = 400
  Body <- MCFound
  DefaultMaxTokens = 2
  PromptMode = "block"
  PIIMode = "redact"
  Providers <- MCProviders
  UpstreamStatus = {200, 403, 429}
  Faults = TRUE
  Disconnects = TRUE
INVARIANTS
  ForwardedAsScreened
  NeverOvercharged
PROPERTIES
  KeepsTrackerProtocol
  EveryRequestEnds
CHECK_DEADLOCK FALSE
