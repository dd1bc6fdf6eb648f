SPECIFICATION FairSpec
CONSTANTS
  s1 = s1
  NoSession = NoSession
  Session = {s1}
  Backends = {"ssl", "ipsec"}
  Mishaps = {"persist"}
  NmManaged = TRUE
  MaxCrashes = 0
PROPERTIES NeverInvented DisconnectEnds ExitReported
