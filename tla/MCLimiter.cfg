SPECIFICATION Spec
CONSTANTS
  Tenant <- MCTenant
  DefaultTenant = "default"
  NoTenant = ""
  DefaultCfg <- MCDefaultCfg
  TenantCfg <- MCTenantCfg
  Second = 1
  MaxClock = 4
INVARIANTS
  SlidingWindow
  ClockStepRecovers
  TokensAccounted
PROPERTY
  RetryAfterExact
