SPECIFICATION Spec
CONSTANTS
  q1 = q1
  q2 = q2
  q3 = q3
  Request <- MCRequest
INVARIANTS
  CleanExit
  StoresReleased
PROPERTIES
  KeepsPromise
  Terminates
CHECK_DEADLOCK FALSE
