SPECIFICATION Spec
CONSTANTS
  s1 = s1
  s2 = s2
  NoSession = NoSession
  Session = {s1, s2}
  Backends = {"ssl", "ipsec"}
  Mishaps = {"overlap"}
  NmManaged = FALSE
  MaxCrashes = 0
SYMMETRY Symmetry
INVARIANTS TeardownAfterExit
