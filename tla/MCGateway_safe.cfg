SPECIFICATION Spec
CONSTANTS
  Hosts = {"a", "b"}
  NetsOf <- MCNetsOf
  Covers <- MCCovers
  LanAddr = "l"
  MaxRoute = 3
INVARIANTS NoPlaintext NetworkSafe FailedClean Routed
