CONSTANTS
  Account = {"a", "b"}
  Variant = {"all", "shielded"}
  MaxId = 3
  Owner <- MCOwner
  Filter <- MCFilter
  Incoming = {2}
  Shielded = {"shielded"}
  Dated = {}
  PageSize = 1
  Testnet = TRUE
  MaxLoads = 2
  MaxViews = 1
  MaxFailures = 1
SPECIFICATION FairSpec
INVARIANTS
  SettledListIsWhole
PROPERTIES
  LoadsEnd
CHECK_DEADLOCK FALSE
