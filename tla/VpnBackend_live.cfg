SPECIFICATION FairSpec
CONSTANTS
  Scenarios <- CalmSsl
  KillPermitted = FALSE
  MaxTries = 3
  MaxAttempts = 2
  MaxHelpers = 1
PROPERTIES DisconnectingEnds ReconnectStarts TrustRetries QuitStopsEverything
