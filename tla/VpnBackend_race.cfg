SPECIFICATION Spec
CONSTANTS
  Scenarios <- RaceScenarios
  KillPermitted = TRUE
  MaxTries = 3
  MaxAttempts = 2
  MaxHelpers = 2
INVARIANTS KeyForgotten
PROPERTIES ImplementsSession
