SPECIFICATION Spec
CONSTANTS
  s1 = s1
  s2 = s2
  NoSession = NoSession
  Session = {s1, s2}
  Backends = {"ssl", "ipsec"}
  Mishaps = {}
  NmManaged = FALSE
  MaxCrashes = 1
SYMMETRY Symmetry
INVARIANTS TypeOK OwnRuntime TeardownAfterExit NoSilentFailure StoppedWhenAcknowledged DisconnectFindsChild OneCharon RouteRecoverable NothingLeftBehind
