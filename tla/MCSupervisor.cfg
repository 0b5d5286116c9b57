CONSTANTS
  Window = 5
  Budget = 2
  FailureLimit = 2
  HealthEvery = 2
  HealthTimeout = 1
  MaxClock = 11
CHECK_DEADLOCK FALSE
SPECIFICATION SupFairSpec
INVARIANTS
  RestartBudget
PROPERTIES
  NoStartAfterCancel
  CancelEnds
  ExitNoticed
