SPECIFICATION FairSpec
CONSTANTS
  Scenarios <- CalmIpsec
  KillPermitted = FALSE
  MaxTries = 3
  MaxAttempts = 2
  MaxHelpers = 1
PROPERTIES ReconnectStarts
