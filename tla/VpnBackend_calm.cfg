SPECIFICATION Spec
CONSTANTS
  Scenarios <- CalmScenarios
  KillPermitted = FALSE
  MaxTries = 3
  MaxAttempts = 2
  MaxHelpers = 1
INVARIANTS NothingOutlivesSession ConnectedIsReal AutoReconnectOnce
PROPERTIES StartsWhenIdle NoStaleEvent UserStopHolds
