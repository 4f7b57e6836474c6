SPECIFICATION Spec
CONSTANTS
  q1 = q1
  q2 = q2
  Model <- MCModel
  DefaultPrices <- MCDefaultPrices
  Feed <- MCFeed
  Micro = 1
  Tenant <- OneTenant
  DefaultTenant = "default"
  NoTenant = ""
  CostCfg <- MCCostCfg
  TenantBudget <- OneTenantBudget
  Persistent = TRUE
  Request <- MCRequest
  Tokens = {1}
  Completion = {0, 1, 2}
  MaxCost = 7
  MaxDay = 1
  MaxSetbacks = 1
  MaxSpend = 20
INVARIANTS
  OverspendBounded
  RoomForInflight
  PerRequestHonoured
  CacheNeverAhead
PROPERTY
  SpendNeverForgotten
SYMMETRY MCSymmetry
