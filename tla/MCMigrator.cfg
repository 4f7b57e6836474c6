SPECIFICATION Spec
CONSTANTS
  p1 = p1
  p2 = p2
  Process <- MCProcess
  Tenant <- MCTenant
  DefaultTenant = "default"
  NoTenant = ""
  Day = {1, 2}
  MaxRows = 2
  MaxInterrupts = 2
INVARIANTS
  RecordedMeansDone
  ServingMigrated
  NothingLost
PROPERTY
  StartupConverges
CHECK_DEADLOCK FALSE
