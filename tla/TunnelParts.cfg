SPECIFICATION Spec
CONSTANTS
  Servers = {"isp", "vpn"}
  VpnServers = {"vpn"}
  FaultSets = {{"kill"}, {"kill", "write"}, {"kill", "inspect"}}
  Slices = 3
  Backlog = 2
  Nets = {"a", "b"}
  Messages <- TaskOrders
  Fits = 1
  Replies = 2
INVARIANTS SettingsBack VerifiedIsClean PageTellsTruth GoldenOrder HelperAgrees
