SPECIFICATION Spec
CONSTANTS
  Scenarios <- UnsentSsl
  KillPermitted = FALSE
  MaxTries = 3
  MaxAttempts = 1
  MaxHelpers = 1
INVARIANTS NothingOutlivesSession
